---- MODULE Spec2Model ----
(***************************************************************************)
(* State-machine model of the BARS EuroScope plugin core:                  *)
(*   - the client-side Aerodrome (src/client/src/client.rs): confirmed     *)
(*     values with a pending overlay, deferred-reset timers, the outgoing  *)
(*     patch, and Client::tick;                                            *)
(*   - the local server worker (src/client/src/server.rs): client streams, *)
(*     the broadcast bus, the AerodromeManager and its upstream socket.    *)
(* Indices are 0-based as in the Rust source; config vectors are TLA+      *)
(* sequences read through At(seq, i) == seq[i + 1].                        *)
(***************************************************************************)
EXTENDS Integers, Sequences, FiniteSets, TLC

\* ------------------------------------------------------------------ bounds
\* local operations and ticks explored per behaviour of the client model
MaxSteps == 2
\* the client clock runs 0..MaxTime (seconds)
MaxTime == 2
\* messages waiting in the client's channel between two ticks
MaxInbox == 1
\* flushed patches whose echo has not come back yet
MaxSent == 2
\* local operations, ticks and foreign patches per behaviour of the client
\* model with its channel
MaxClientSteps == 4
\* Track messages the clients send of their own accord, all streams together
MaxSends == 2
\* unread broadcasts per stream while the worker model runs
MaxBus == 4
\* upstream sockets the manager opens in one behaviour
MaxSockets == 2
\* Control messages the clients send while the bus model runs
MaxControls == 17
\* messages waiting in each queue around the bus while the bus model runs
MaxQueued == 1
\* updates other controllers send through the authoritative server
MaxForeign == 1
\* calls of set_tracking, set_controlling and set_node the client of the
\* synchronisation model makes after its first set_tracking
MaxSyncOps == 3
\* messages waiting on the client's channel when tick() is checked alone
MaxTickInbox == 2
\* messages the server side writes to the client channel under comparison
MaxFrames == 2
\* numbers a JSON value of the shared state holds: 1 .. MaxNum
MaxNum == 1
\* text frames other than Close the authoritative server handles in all
MaxUpdates == 2

\* ----------------------------------------------------------------- helpers
None == {}
Some(x) == {x}
Unwrap(o) == CHOOSE x \in o : TRUE

At(seq, i) == seq[i + 1]
Indices(seq) == 0 .. (Len(seq) - 1)

EmptyMap == [k \in {} |-> TRUE]
\* HashMap::insert
Insert(m, k, v) == [x \in (DOMAIN m) \cup {k} |-> IF x = k THEN v ELSE m[x]]
\* HashMap::extend: entries of m2 replace those of m1
Extend(m1, m2) ==
  [x \in (DOMAIN m1) \cup (DOMAIN m2) |-> IF x \in DOMAIN m2 THEN m2[x] ELSE m1[x]]

SetMin(S) == CHOOSE x \in S : \A y \in S : x <= y
SetMax(S) == CHOOSE x \in S : \A y \in S : x >= y

\* ------------------------------------------------------------ config model
\* bars_config::BlockState (node indices) and bars_protocol::BlockState (ids)
Clear == <<"Clear">>
Relax == <<"Relax">>
Route(a, b) == <<"Route", a, b>>

\* bars_config::ResetCondition as Option<u32>: None | TimeSecs(n)
ResetNone == None
TimeSecs(n) == Some(n)

\* bars_config::NodeCondition
Fixed(s) == [kind |-> "Fixed", state |-> s, reset |-> ResetNone]
Direct(r) == [kind |-> "Direct", state |-> FALSE, reset |-> r]
Router == [kind |-> "Router", state |-> FALSE, reset |-> ResetNone]

\* the preset key meaning "every index of the kind not set earlier": u32::MAX,
\* written as the 32-bit two's complement value (TLC integers are 32 bits wide)
SentinelKey == -1
\* !((index as u32) < u32::MAX)
IsSentinel(i) == i = SentinelKey

\* config.nodes[i].id
ConfigNodeIds == <<"n1", "n2", "n3", "n4">>
\* config.blocks[b]: id and boundary nodes. The blocks form a ring:
\* n1 -b1- n2 -b2- {n3, n4}, n4 -b3- n1 (b2 is a junction with three nodes)
ConfigBlocks ==
  << [id |-> "b1", nodes |-> <<0, 1>>],
     [id |-> "b2", nodes |-> <<1, 2, 3>>],
     [id |-> "b3", nodes |-> <<3, 0>>] >>
\* config.profiles: p1 is all Direct with different reset delays; p2 is the
\* chain Router - Fixed(false) - Router with the ring cut at n4; p3 has two
\* transparent nodes, so that the ring is open both ways; p4 has Direct
\* nodes between the Routers; p5 has both ways between the Routers cut
ConfigProfiles ==
  << [id |-> "p1",
      nodes |-> <<Direct(TimeSecs(2)), Direct(TimeSecs(1)), Direct(ResetNone),
                  Direct(ResetNone)>>,
      blocks |-> <<TimeSecs(2), TimeSecs(1), ResetNone>>,
      presets |->
        << [nodes |-> << <<0, FALSE>>, <<SentinelKey, TRUE>> >>,
            blocks |-> << <<SentinelKey, Relax>> >>],
           [nodes |-> << <<1, FALSE>> >>,
            blocks |-> << <<0, Route(0, 1)>> >>] >>],
     [id |-> "p2",
      nodes |-> <<Router, Fixed(FALSE), Router, Fixed(TRUE)>>,
      blocks |-> <<ResetNone, TimeSecs(1), ResetNone>>,
      presets |->
        << [nodes |-> <<>>,
            blocks |-> << <<1, Relax>> >>] >>],
     [id |-> "p3",
      nodes |-> <<Router, Fixed(FALSE), Router, Fixed(FALSE)>>,
      blocks |-> <<TimeSecs(1), ResetNone, TimeSecs(2)>>,
      presets |-> <<>>],
     [id |-> "p4",
      nodes |-> <<Router, Direct(ResetNone), Router, Direct(ResetNone)>>,
      blocks |-> <<ResetNone, ResetNone, ResetNone>>,
      presets |-> <<>>],
     [id |-> "p5",
      nodes |-> <<Router, Fixed(TRUE), Router, Fixed(TRUE)>>,
      blocks |-> <<ResetNone, ResetNone, ResetNone>>,
      presets |-> <<>>] >>

NNodes == Len(ConfigNodeIds)
NBlocks == Len(ConfigBlocks)
NProfiles == Len(ConfigProfiles)
NodeIx == 0 .. (NNodes - 1)
BlockIx == 0 .. (NBlocks - 1)

NodeId(i) == At(ConfigNodeIds, i)
BlockId(b) == At(ConfigBlocks, b).id
NodeCond(p, i) == At(At(ConfigProfiles, p).nodes, i)
BlockReset(p, b) == At(At(ConfigProfiles, p).blocks, b)

\* node_ids / block_ids: id -> index, a later insert replacing an earlier one
NodeIds(id) ==
  LET S == {i \in NodeIx : NodeId(i) = id}
  IN IF S = {} THEN None ELSE Some(SetMax(S))
BlockIds(id) ==
  LET S == {b \in BlockIx : BlockId(b) = id}
  IN IF S = {} THEN None ELSE Some(SetMax(S))

\* node_blocks[node] with the first bordering block in both slots
NodeBlocksFirstOnly(node) ==
  LET S == {b \in BlockIx :
              \E k \in DOMAIN At(ConfigBlocks, b).nodes :
                 At(ConfigBlocks, b).nodes[k] = node}
  IN IF S = {} THEN <<0, 0>> ELSE <<SetMin(S), SetMin(S)>>

\* node_blocks[node]: slot 0 is the first block bordering the node, slot 1 the
\* last one; [0, 0] when no block borders it (each node borders at most two)
NodeBlocks(node) ==
  LET S == {b \in BlockIx :
              \E k \in DOMAIN At(ConfigBlocks, b).nodes :
                 At(ConfigBlocks, b).nodes[k] = node}
  IN IF S = {} THEN <<0, 0>> ELSE <<SetMin(S), SetMax(S)>>

\* position of the first profile with the given id
ProfilePosition(id) ==
  LET S == {p \in Indices(ConfigProfiles) : At(ConfigProfiles, p).id = id}
  IN IF S = {} THEN None ELSE Some(SetMin(S))

\* ------------------------------------------------------- Aerodrome (client)
\* State<T>
Cell(c, p) == [current |-> c, pending |-> p]
\* State::state
Effective(cell) == IF cell.pending = None THEN cell.current ELSE Unwrap(cell.pending)

\* bars_protocol::Patch
Patch(profile, nodes, blocks) == [profile |-> profile, nodes |-> nodes, blocks |-> blocks]
PatchDefault == Patch(None, EmptyMap, EmptyMap)
\* Patch::is_empty
PatchIsEmpty(p) == p.profile = None /\ DOMAIN p.nodes = {} /\ DOMAIN p.blocks = {}
\* a merge in which the earlier writer wins (what Patch::apply_patch is not)
PatchKeepFirst(self, p) ==
  Patch(IF self.profile # None THEN self.profile ELSE p.profile,
        Extend(p.nodes, self.nodes),
        Extend(p.blocks, self.blocks))
\* Patch::apply_patch: key-wise last-writer-wins merge
PatchApplyPatch(self, p) ==
  Patch(IF p.profile # None THEN p.profile ELSE self.profile,
        Extend(self.nodes, p.nodes),
        Extend(self.blocks, p.blocks))

\* Aerodrome::bs_ipc_to_conf
BsIpcToConf(s) ==
  IF s[1] # "Route" THEN Some(s)
  ELSE IF NodeIds(s[2]) = None \/ NodeIds(s[3]) = None THEN None
       ELSE Some(Route(Unwrap(NodeIds(s[2])), Unwrap(NodeIds(s[3]))))
\* Aerodrome::bs_conf_to_ipc
BsConfToIpc(s) ==
  IF s[1] # "Route" THEN s ELSE Route(NodeId(s[2]), NodeId(s[3]))

\* Vec::retain(|(cell, _)| cell != i)
RetainNot(timers, i) ==
  LET Keep(t) == t[1] # i IN SelectSeq(timers, Keep)

\* Aerodrome::set_default_state
SetDefaultState(a, patch) ==
  LET nodes == [i \in NodeIx |->
                  Cell(LET c == NodeCond(a.profile, i)
                       IN IF c.kind = "Fixed" THEN c.state
                          ELSE IF c.kind = "Direct" THEN c.reset # ResetNone
                          ELSE TRUE,
                       None)]
      blocks == [b \in BlockIx |-> Cell(Clear, None)]
      pp == IF patch
            THEN [a.pending_patch EXCEPT
                    !.nodes = [id \in {NodeId(i) : i \in NodeIx} |->
                                 Effective(nodes[Unwrap(NodeIds(id))])],
                    !.blocks = [id \in {BlockId(b) : b \in BlockIx} |->
                                  BsConfToIpc(Effective(blocks[Unwrap(BlockIds(id))]))]]
            ELSE a.pending_patch
  IN [a EXCEPT !.nodes = nodes, !.blocks = blocks, !.pending_patch = pp,
               !.node_timers = <<>>, !.block_timers = <<>>]

\* Aerodrome::new
AerodromeNew ==
  SetDefaultState(
    [profile |-> 0,
     nodes |-> [i \in NodeIx |-> Cell(FALSE, None)],
     blocks |-> [b \in BlockIx |-> Cell(Clear, None)],
     pending_patch |-> PatchDefault,
     node_timers |-> <<>>,
     block_timers |-> <<>>],
    FALSE)

\* Aerodrome::set_node_state without node_timers.retain
SetNodeStateKeepTimers(a, node, state, now) ==
  LET a1 == [a EXCEPT
               !.nodes[node].pending = Some(state),
               !.pending_patch.nodes = Insert(@, NodeId(node), state)]
      c == NodeCond(a.profile, node)
  IN IF ~state /\ c.kind = "Direct" /\ c.reset # ResetNone
     THEN [a1 EXCEPT !.node_timers = Append(@, <<node, now + Unwrap(c.reset)>>)]
     ELSE a1

\* Aerodrome::set_node_state
SetNodeState(a, node, state, now) ==
  LET a1 == [a EXCEPT
               !.nodes[node].pending = Some(state),
               !.pending_patch.nodes = Insert(@, NodeId(node), state),
               !.node_timers = RetainNot(@, node)]
      c == NodeCond(a.profile, node)
  IN IF ~state /\ c.kind = "Direct" /\ c.reset # ResetNone
     THEN [a1 EXCEPT !.node_timers = Append(@, <<node, now + Unwrap(c.reset)>>)]
     ELSE a1

\* Aerodrome::set_block_state
SetBlockState(a, block, state, now) ==
  LET a1 == [a EXCEPT
               !.blocks[block].pending = Some(state),
               !.pending_patch.blocks = Insert(@, BlockId(block), BsConfToIpc(state)),
               !.block_timers = RetainNot(@, block)]
      r == BlockReset(a.profile, block)
  IN IF state # Clear /\ r # ResetNone
     THEN [a1 EXCEPT !.block_timers = Append(@, <<block, now + Unwrap(r)>>)]
     ELSE a1

\* Aerodrome::set_node
SetNode(a, node, state, now) ==
  IF node >= NNodes THEN a
  ELSE IF NodeCond(a.profile, node).kind = "Direct"
       THEN SetNodeState(a, node, state, now)
       ELSE a

\* set_block's loop pushing no neighbouring block
CascadeNone(a, block, k) == <<>>

\* the blocks pushed by one iteration of set_block's loop: both node_blocks
\* slots of every Fixed{false} boundary node of the block, in order
RECURSIVE CascadeNext(_, _, _)
CascadeNext(a, block, k) ==
  LET ns == At(ConfigBlocks, block).nodes
  IN IF k > Len(ns) THEN <<>>
     ELSE (IF NodeCond(a.profile, ns[k]) = Fixed(FALSE)
           THEN NodeBlocks(ns[k]) ELSE <<>>)
          \o CascadeNext(a, block, k + 1)

\* the while-let loop of Aerodrome::set_block (stack popped from the back)
RECURSIVE SetBlockLoop(_, _, _, _, _)
SetBlockLoop(a, stack, visited, state, now) ==
  IF stack = <<>> THEN a
  ELSE LET block == stack[Len(stack)]
           rest == SubSeq(stack, 1, Len(stack) - 1)
       IN IF block \in visited
          THEN SetBlockLoop(a, rest, visited, state, now)
          ELSE SetBlockLoop(SetBlockState(a, block, state, now),
                            rest \o CascadeNext(a, block, 1),
                            visited \cup {block}, state, now)

\* Aerodrome::set_block
SetBlock(a, block, state, now) ==
  IF block >= NBlocks THEN a
  ELSE SetBlockLoop(a, <<block>>, {}, state, now)

\* the blocks bordering a node, in config order
BlocksOf(node) ==
  LET Has(b) == \E k \in DOMAIN At(ConfigBlocks, b).nodes :
                   At(ConfigBlocks, b).nodes[k] = node
      Ix == [k \in 1 .. NBlocks |-> k - 1]
  IN SelectSeq(Ix, Has)

\* the side of a node a block lies on, as Aerodrome::new sees it when it
\* reaches the block: borders[node] > 0, i.e. an earlier block borders the node
SideOf(node, block) == \E k \in DOMAIN BlocksOf(node) : BlocksOf(node)[k] < block

\* node_conns[node][side]: the other nodes of the block on that side, each
\* with the side of it the block lies on (the config has no non_routes)
NodeConns(node, side) ==
  LET bs == BlocksOf(node)
      slot == IF side THEN 2 ELSE 1
  IN IF slot > Len(bs) THEN <<>>
     ELSE LET ns == At(ConfigBlocks, bs[slot]).nodes
              conns == [k \in DOMAIN ns |-> <<ns[k], SideOf(ns[k], bs[slot])>>]
              Other(c) == c[1] # node
          IN SelectSeq(conns, Other)

\* set_route: the for loop over node_conns[node][direction] of one popped item
RECURSIVE RouteExpand(_, _, _, _, _)
RouteExpand(st, conns, k, from, transparent) ==
  IF k > Len(conns) THEN st
  ELSE LET key == <<conns[k][1], ~conns[k][2]>>
           next == <<key[1], key[2], from[3] + (IF transparent THEN 0 ELSE 1)>>
           st2 == IF key \notin st.visited
                  THEN [st EXCEPT
                          !.visited = @ \cup {key},
                          !.chain = Insert(@, key, <<from[1], from[2]>>),
                          !.nodes = IF transparent THEN <<next>> \o @
                                    ELSE Append(@, next)]
                  ELSE [st EXCEPT !.revisited = @ \cup {key}]
       IN RouteExpand(st2, conns, k + 1, from, transparent)

\* set_route: the walk from the destination back along chain
RECURSIVE ChainList(_, _)
ChainList(chain, item) ==
  IF item \in DOMAIN chain THEN <<item>> \o ChainList(chain, chain[item])
  ELSE <<item>>

\* set_route: the while-let loop over the deque; error is the early return
\* taken when the destination is popped a second time
RECURSIVE RouteSearch(_, _, _)
RouteSearch(a, st, dest) ==
  IF st.nodes = <<>> THEN st
  ELSE LET h == Head(st.nodes)
           st1 == [st EXCEPT !.nodes = Tail(@)]
           condition == NodeCond(a.profile, h[1])
       IN IF condition = Fixed(TRUE) THEN RouteSearch(a, st1, dest)
          ELSE IF h[1] = dest
          THEN IF st.list = None
               THEN LET st2 == [st1 EXCEPT
                                  !.list = Some(ChainList(st.chain, <<h[1], h[2]>>))]
                    IN IF h[3] > 1 THEN RouteSearch(a, st2, dest) ELSE st2
               ELSE [st1 EXCEPT !.error = TRUE]
          ELSE RouteSearch(a,
                 RouteExpand(st1, NodeConns(h[1], h[2]), 1, h,
                             condition = Fixed(FALSE)),
                 dest)

\* set_route searching whatever the conditions of the two end nodes are
RouteFoundAnyEnds(a, orgn, dest) ==
  RouteSearch(a,
    [nodes |-> << <<orgn, FALSE, 0>>, <<orgn, TRUE, 0>> >>,
     visited |-> {<<orgn, FALSE>>, <<orgn, TRUE>>},
     chain |-> EmptyMap, list |-> None, revisited |-> {},
     error |-> FALSE],
    dest)

\* set_route up to its last loop: the search result, or nothing for endpoints
\* that are not Router nodes
RouteFound(a, orgn, dest) ==
  IF NodeCond(a.profile, orgn) # Router \/ NodeCond(a.profile, dest) # Router
  THEN [nodes |-> <<>>, visited |-> {}, chain |-> EmptyMap, list |-> None,
        revisited |-> {}, error |-> TRUE]
  ELSE RouteSearch(a,
         [nodes |-> << <<orgn, FALSE, 0>>, <<orgn, TRUE, 0>> >>,
          visited |-> {<<orgn, FALSE>>, <<orgn, TRUE>>},
          chain |-> EmptyMap, list |-> None, revisited |-> {},
          error |-> FALSE],
         dest)

\* set_route: the block mutations of the last loop, in the order issued
\* (list.windows(2), the list running from the destination to the origin)
RouteMutations(a, orgn, dest) ==
  LET st == RouteFound(a, orgn, dest)
  IN IF st.error \/ st.list = None THEN <<>>
     ELSE LET list == Unwrap(st.list)
          IN IF \E k \in 1 .. (Len(list) - 1) : list[k] \in st.revisited
             THEN <<>>
             ELSE [k \in 1 .. (Len(list) - 1) |->
                     LET node2 == list[k][1]
                         node1 == list[k + 1][1]
                         direction1 == list[k + 1][2]
                     IN <<NodeBlocks(node1)[IF direction1 THEN 2 ELSE 1],
                          Route(node1, node2)>>]

\* set_block_state for each mutation in turn
RECURSIVE ApplyMutations(_, _, _, _)
ApplyMutations(a, muts, k, now) ==
  IF k > Len(muts) THEN a
  ELSE ApplyMutations(SetBlockState(a, muts[k][1], muts[k][2], now), muts, k + 1, now)

\* Aerodrome::set_route
SetRoute(a, orgn, dest, now) ==
  ApplyMutations(a, RouteMutations(a, orgn, dest), 1, now)

\* Aerodrome::set_profile
SetProfile(a, i) ==
  IF i >= NProfiles THEN a
  ELSE SetDefaultState(
         [a EXCEPT !.profile = i,
                   !.pending_patch.profile = Some(At(ConfigProfiles, i).id)],
         TRUE)

\* an apply_patch that drops the node's timer in both branches (what the code
\* does not do)
ApplyNodeEntryCancelling(a, id, state) ==
  IF NodeIds(id) = None THEN a
  ELSE LET i == Unwrap(NodeIds(id))
       IN IF a.nodes[i].pending = Some(state)
          THEN [a EXCEPT !.nodes[i].current = state, !.nodes[i].pending = None,
                         !.node_timers = RetainNot(@, i)]
          ELSE [a EXCEPT !.nodes[i].current = state,
                         !.node_timers = RetainNot(@, i)]

\* one entry of patch.nodes in Aerodrome::apply_patch
ApplyNodeEntry(a, id, state) ==
  IF NodeIds(id) = None THEN a
  ELSE LET i == Unwrap(NodeIds(id))
       IN IF a.nodes[i].pending = Some(state)
          THEN [a EXCEPT !.nodes[i].current = state, !.nodes[i].pending = None]
          ELSE [a EXCEPT !.nodes[i].current = state,
                         !.node_timers = RetainNot(@, i)]

\* one entry of patch.blocks in Aerodrome::apply_patch
ApplyBlockEntry(a, id, ipc) ==
  IF BlockIds(id) = None \/ BsIpcToConf(ipc) = None THEN a
  ELSE LET i == Unwrap(BlockIds(id))
           state == Unwrap(BsIpcToConf(ipc))
       IN IF a.blocks[i].pending = Some(state)
          THEN [a EXCEPT !.blocks[i].current = state, !.blocks[i].pending = None]
          ELSE [a EXCEPT !.blocks[i].current = state,
                         !.block_timers = RetainNot(@, i)]

RECURSIVE ApplyNodeEntries(_, _, _)
ApplyNodeEntries(a, m, keys) ==
  IF keys = {} THEN a
  ELSE LET id == CHOOSE k \in keys : TRUE
       IN ApplyNodeEntries(ApplyNodeEntry(a, id, m[id]), m, keys \ {id})

RECURSIVE ApplyBlockEntries(_, _, _)
ApplyBlockEntries(a, m, keys) ==
  IF keys = {} THEN a
  ELSE LET id == CHOOSE k \in keys : TRUE
       IN ApplyBlockEntries(ApplyBlockEntry(a, id, m[id]), m, keys \ {id})

\* an apply_patch whose profile part leaves both timer lists as they are
ApplyPatchProfileKeepTimers(a, patch) ==
  IF patch.profile = None \/ ProfilePosition(Unwrap(patch.profile)) = None
  THEN a
  ELSE [a EXCEPT !.profile = Unwrap(ProfilePosition(Unwrap(patch.profile)))]

\* the profile part of Aerodrome::apply_patch
ApplyPatchProfile(a, patch) ==
  IF patch.profile = None \/ ProfilePosition(Unwrap(patch.profile)) = None
  THEN a
  ELSE [a EXCEPT !.profile = Unwrap(ProfilePosition(Unwrap(patch.profile))),
                 !.node_timers = <<>>,
                 !.block_timers = <<>>]

\* Aerodrome::apply_patch
ApplyPatch(a, patch) ==
  LET a1 == ApplyPatchProfile(a, patch)
      a2 == ApplyNodeEntries(a1, patch.nodes, DOMAIN patch.nodes)
  IN ApplyBlockEntries(a2, patch.blocks, DOMAIN patch.blocks)

\* the two while loops of Aerodrome::tick
RECURSIVE FireNodeTimers(_, _)
FireNodeTimers(a, now) ==
  IF a.node_timers # <<>> /\ Head(a.node_timers)[2] < now
  THEN FireNodeTimers(
         SetNode([a EXCEPT !.node_timers = Tail(@)], Head(a.node_timers)[1], TRUE, now),
         now)
  ELSE a

RECURSIVE FireBlockTimers(_, _)
FireBlockTimers(a, now) ==
  IF a.block_timers # <<>> /\ Head(a.block_timers)[2] < now
  THEN FireBlockTimers(
         SetBlock([a EXCEPT !.block_timers = Tail(@)], Head(a.block_timers)[1], Clear, now),
         now)
  ELSE a

\* Aerodrome::tick
AerodromeTick(a, now) == FireBlockTimers(FireNodeTimers(a, now), now)

\* the loops of Aerodrome::apply_preset over preset.nodes and preset.blocks;
\* acc is the local map that becomes the outgoing patch's nodes (blocks)
\* a sentinel entry that assigns every node, named before it or not
RECURSIVE PresetAllNodesOverwriting(_, _, _, _)
PresetAllNodesOverwriting(a, acc, state, node) ==
  IF node >= NNodes THEN [a |-> a, acc |-> acc]
  ELSE PresetAllNodesOverwriting([a EXCEPT !.nodes[node].pending = Some(state)],
                                 Insert(acc, NodeId(node), state), state, node + 1)

RECURSIVE PresetAllNodes(_, _, _, _)
PresetAllNodes(a, acc, state, node) ==
  IF node >= NNodes THEN [a |-> a, acc |-> acc]
  ELSE IF NodeId(node) \in DOMAIN acc
       THEN PresetAllNodes(a, acc, state, node + 1)
       ELSE PresetAllNodes([a EXCEPT !.nodes[node].pending = Some(state)],
                           Insert(acc, NodeId(node), state), state, node + 1)

RECURSIVE PresetNodes(_, _, _, _)
PresetNodes(a, acc, entries, k) ==
  IF k > Len(entries) THEN [a |-> a, acc |-> acc]
  ELSE LET node == entries[k][1]
           state == entries[k][2]
       IN IF ~IsSentinel(node)
          THEN PresetNodes([a EXCEPT !.nodes[node].pending = Some(state)],
                           Insert(acc, NodeId(node), state), entries, k + 1)
          ELSE LET r == PresetAllNodes(a, acc, state, 0)
               IN PresetNodes(r.a, r.acc, entries, k + 1)

RECURSIVE PresetAllBlocks(_, _, _, _)
PresetAllBlocks(a, acc, state, block) ==
  IF block >= NBlocks THEN [a |-> a, acc |-> acc]
  ELSE IF BlockId(block) \in DOMAIN acc
       THEN PresetAllBlocks(a, acc, state, block + 1)
       ELSE PresetAllBlocks([a EXCEPT !.blocks[block].pending = Some(state)],
                            Insert(acc, BlockId(block), BsConfToIpc(state)),
                            state, block + 1)

RECURSIVE PresetBlocks(_, _, _, _)
PresetBlocks(a, acc, entries, k) ==
  IF k > Len(entries) THEN [a |-> a, acc |-> acc]
  ELSE LET block == entries[k][1]
           state == entries[k][2]
       IN IF ~IsSentinel(block)
          THEN PresetBlocks([a EXCEPT !.blocks[block].pending = Some(state)],
                            Insert(acc, BlockId(block), BsConfToIpc(state)),
                            entries, k + 1)
          ELSE LET r == PresetAllBlocks(a, acc, state, 0)
               IN PresetBlocks(r.a, r.acc, entries, k + 1)

\* Aerodrome::apply_preset
ApplyPreset(a, i) ==
  IF i >= Len(At(ConfigProfiles, a.profile).presets) THEN a
  ELSE LET preset == At(At(ConfigProfiles, a.profile).presets, i)
           rn == PresetNodes(a, EmptyMap, preset.nodes, 1)
           rb == PresetBlocks(rn.a, EmptyMap, preset.blocks, 1)
       IN [rb.a EXCEPT !.pending_patch.nodes = rn.acc,
                       !.pending_patch.blocks = rb.acc,
                       !.node_timers = <<>>,
                       !.block_timers = <<>>]

\* ---------------------------------------------------- client state machine
VARIABLES
  mgr,     \* AerodromeManagerData, the socket tasks alive, the build profile
  strm,    \* per client stream: tracked set, queues, task liveness
  serverq, \* server_tx: Upstream messages forwarded to Worker::serve
  last,    \* what the last AerodromeManager::track call did
  lk,      \* owners of the data and socket mutexes; where Worker::serve and
           \* the socket task stand
  net,     \* frames between the manager's socket and the authoritative server
  aeroB,   \* the Aerodrome record of a second client
  echo,    \* the mutation of the first client being followed to the second
  aero,    \* the client's Aerodrome record
  now,     \* Instant::now(), whole seconds
  inbox,   \* Downstream::Patch messages in the client's channel, oldest first
  sent,    \* Upstream::Patch messages flushed by tick(), not yet echoed back
  hist,    \* the messages drained by the last Client::tick
  scen,    \* progress of the last preset round trip (apply, flush, echo)
  steps,   \* local operations and ticks taken so far
  ctx,     \* the plugin's Context: connection state, client, user messages
  chan,    \* one client channel on both backends, side by side
  srv      \* the authoritative server: one aerodrome and its sessions

clientVars == <<aero, now, inbox, sent, hist, scen, steps>>
workerVars == <<mgr, strm, serverq, last>>
echoVars == <<lk, net, aeroB, echo>>
toolVars == <<ctx, chan, srv>>
vars ==
  <<mgr, strm, serverq, last, lk, net, aeroB, echo,
    aero, now, inbox, sent, hist, scen, steps, ctx, chan, srv>>

\* a message in the channel: the patch, whether it answers a patch of this
\* client, and whether it is the flushed preset patch followed by scen
Msg(patch, src, mark) == [patch |-> patch, src |-> src, mark |-> mark]

\* inbound patches: known and unknown cells, equal and different values,
\* a known and an unknown profile, a route with an unknown endpoint
InboundPatches ==
  { Patch(None, [k \in {"n1", "nx"} |-> k = "n1"], EmptyMap),
    Patch(None, [k \in {"n1"} |-> FALSE], EmptyMap),
    Patch(None, EmptyMap, [k \in {"b1"} |-> Relax]),
    Patch(None, EmptyMap, [k \in {"b1"} |-> Route("n1", "nx")]),
    Patch(Some("p2"), EmptyMap, EmptyMap),
    Patch(Some("px"), EmptyMap, EmptyMap) }

\* what a tick may find in the channel: up to MaxInbox inbound patches
InboxChoices ==
  UNION { [1 .. n -> {Msg(p, "foreign", FALSE) : p \in InboundPatches}] :
            n \in 0 .. MaxInbox }

\* the inputs of set_block reachable from the screen (primary / auxiliary click)
ClickStates == {Clear, Relax}

\* effective value of every cell
EffectiveValues(a) ==
  [nodes |-> [i \in NodeIx |-> Effective(a.nodes[i])],
   blocks |-> [b \in BlockIx |-> Effective(a.blocks[b])]]

ScenIdle == [phase |-> "idle", eff |-> EffectiveValues(AerodromeNew), clean |-> TRUE]

\* the message loop of Client::tick for Downstream::Patch messages
RECURSIVE ApplyInbox(_, _, _)
ApplyInbox(a, msgs, k) ==
  IF k > Len(msgs) THEN a
  ELSE ApplyInbox(ApplyPatch(a, msgs[k].patch), msgs, k + 1)

\* a tick that runs the timers before it drains the channel
TickResultTimersFirst(a, msgs, t) ==
  LET a2 == ApplyInbox(AerodromeTick(a, t), msgs, 1)
  IN [aero |-> [a2 EXCEPT !.pending_patch = PatchDefault],
      out |-> a2.pending_patch]

\* Client::tick on one aerodrome: drain the channel, Aerodrome::tick, then
\* take the outgoing patch; the result is the aerodrome and the patch taken
TickResult(a, msgs, t) ==
  LET a2 == AerodromeTick(ApplyInbox(a, msgs, 1), t)
  IN [aero |-> [a2 EXCEPT !.pending_patch = PatchDefault],
      out |-> a2.pending_patch]

\* ------------------------------------------------- local server worker
\* the client streams of the worker (the in-process one and a TCP one)
Streams == {1, 2}

\* capacity of the broadcast bus: Sender::new(16)
BusCapacity == 16

\* ipc::Upstream and ipc::Downstream for the one aerodrome followed
UpInit == [kind |-> "Init", flag |-> FALSE]
UpTrack(t) == [kind |-> "Track", flag |-> t]
UpControl(c) == [kind |-> "Control", flag |-> c]
DownConfig == [kind |-> "Config", flag |-> FALSE]
DownControl(c) == [kind |-> "Control", flag |-> c]
DownPatch(p) == [kind |-> "Patch", flag |-> FALSE, patch |-> p]
UpPatch(p) == [kind |-> "Patch", flag |-> FALSE, patch |-> p]
\* Downstream::Error{icao, message, disconnect}; the worker always gives a
\* message text
DownErrorMsg(d, message) == [kind |-> "Error", flag |-> d, message |-> message]
DownError(d) == DownErrorMsg(d, Some("connection"))

\* Vec-like helpers
RECURSIVE Concat(_, _)
Concat(q, msgs) == IF msgs = <<>> THEN q ELSE Concat(Append(q, Head(msgs)), Tail(msgs))

\* one subscriber's side of tokio broadcast: the oldest unread message is
\* overwritten when the ring is full, and the receiver is marked as lagging
RECURSIVE BusPush(_, _)
BusPush(st, msgs) ==
  IF msgs = <<>> THEN st
  ELSE BusPush(
         IF Len(st.bus) < BusCapacity
         THEN [st EXCEPT !.bus = Append(@, Head(msgs))]
         ELSE [st EXCEPT !.bus = Append(Tail(@), Head(msgs)), !.lagged = TRUE],
         Tail(msgs))

\* AerodromeManager::broadcast, for a sequence of messages: every live
\* receiver (forwarding task) of the bus gets them
Broadcast(ss, msgs) ==
  [s \in Streams |-> IF ss[s].fwd THEN BusPush(ss[s], msgs) ELSE ss[s]]

\* a sync_clients that sends the snapshot before the configuration
SyncMessagesPatchFirst(m) ==
  IF m.config THEN <<DownPatch(m.state), DownConfig, DownControl(m.controlling)>> ELSE <<>>

\* AerodromeManager::sync_clients
SyncMessages(m) ==
  IF m.config THEN <<DownConfig, DownControl(m.controlling), DownPatch(m.state)>> ELSE <<>>

StreamInit ==
  [tracked |-> FALSE, up |-> <<>>, bus |-> <<>>, down |-> <<>>,
   lagged |-> FALSE, fwd |-> TRUE, open |-> TRUE, sends |-> 0, ctl |-> 0,
   \* the client of the stream: whether Client::aerodromes has the aerodrome,
   \* its ActivityState, and the user messages its last tick() returned
   has |-> FALSE, act |-> "None", user |-> <<>>,
   \* the kind of the first message the client put on its channel
   first |-> "none"]

\* AerodromeManager::new; socket 0 is None, tasks holds the sockets whose
\* socket task still runs, opened counts the sockets ever opened
ManagerNew(release, upstream) ==
  [config |-> FALSE, controlling |-> FALSE, trackers |-> 0,
   state |-> PatchDefault, socket |-> 0,
   tasks |-> {}, opened |-> 0, release |-> release, upstream |-> upstream]

LastNone ==
  [called |-> FALSE, track |-> FALSE, before |-> 0, after |-> 0,
   attempted |-> FALSE, closed |-> FALSE, fresh |-> FALSE]

WorkerInit(release, upstream) ==
  /\ mgr = ManagerNew(release, upstream)
  /\ strm = [s \in Streams |-> StreamInit]
  /\ serverq = <<>>
  /\ last = LastNone

\* no mutex held, Worker::serve waiting for a message, no socket task
LockIdle == [data |-> "none", sock |-> "none", spc |-> "idle", tpc |-> "ended"]
NetIdle == [out |-> <<>>, inn |-> <<>>, foreign |-> 0]
EchoNone == [phase |-> "idle", kind |-> "node", cell |-> 0]

\* no Context, no channel under comparison, no authoritative server
ToolIdle ==
  /\ ctx = [state |-> "Disconnected"]
  /\ chan = <<>>
  /\ srv = <<>>

\* the state of the model parts a specification does not use
EchoIdle ==
  /\ lk = LockIdle
  /\ net = NetIdle
  /\ aeroB = AerodromeNew
  /\ echo = EchoNone

\* room on every stream's bus for n more broadcasts (model bound)
BusRoom(n) == \A s \in Streams : Len(strm[s].bus) + n <= MaxBus

RECURSIVE SendsSoFar(_, _)
SendsSoFar(ss, S) ==
  IF S = {} THEN 0
  ELSE LET s == CHOOSE x \in S : TRUE IN ss[s].sends + SendsSoFar(ss, S \ {s})

\* the client of stream s calls Client::set_tracking(icao, t)
CliTrack(s, t) ==
  /\ strm[s].open /\ SendsSoFar(strm, Streams) < MaxSends
  /\ strm' = [strm EXCEPT ![s].up = Append(@, UpTrack(t)), ![s].sends = @ + 1,
                          \* aerodromes.remove(&icao) when !track
                          ![s].has = IF t THEN @ ELSE FALSE]
  /\ UNCHANGED <<mgr, serverq, last>>

\* the client of stream s calls Client::set_controlling(icao, true)
CliControl(s) ==
  /\ strm[s].open /\ strm[s].ctl < MaxControls
  /\ strm[s].has
  /\ strm' = [strm EXCEPT ![s].up = Append(@, UpControl(TRUE)), ![s].ctl = @ + 1]
  /\ UNCHANGED <<mgr, serverq, last>>

\* what Client::tick sends for the Downstream messages it drains: a
\* Track{false} for every Error with disconnect
RECURSIVE TickReplies(_)
TickReplies(msgs) ==
  IF msgs = <<>> THEN <<>>
  ELSE (IF Head(msgs).kind = "Error" /\ Head(msgs).flag
        THEN <<UpTrack(FALSE)>> ELSE <<>>) \o TickReplies(Tail(msgs))

\* whether Client::aerodromes has the aerodrome after tick drained msgs
RECURSIVE TickHas(_, _)
TickHas(has, msgs) ==
  IF msgs = <<>> THEN has
  ELSE TickHas(IF Head(msgs).kind = "Config" THEN TRUE
               ELSE IF Head(msgs).kind = "Error" /\ Head(msgs).flag THEN FALSE
               ELSE has,
               Tail(msgs))

\* Client::tick of the client of stream s, as far as tracking goes
CliTick(s) ==
  /\ strm[s].open /\ strm[s].down # <<>>
  /\ strm' = [strm EXCEPT ![s].up = @ \o TickReplies(strm[s].down),
                          ![s].down = <<>>,
                          ![s].has = TickHas(@, strm[s].down)]
  /\ UNCHANGED <<mgr, serverq, last>>

\* the client of stream s goes away (its channel is dropped)
CliClose(s) ==
  /\ strm[s].open
  /\ strm' = [strm EXCEPT ![s].open = FALSE, ![s].down = <<>>]
  /\ UNCHANGED <<mgr, serverq, last>>

\* the reading task of handle_stream takes one message, or sees the end of
\* the stream
StreamRead(s) ==
  IF strm[s].up # <<>>
  THEN LET m == Head(strm[s].up)
           \* Upstream::Init and a Track that changes nothing are not
           \* passed on (continue)
           dup == \/ m.kind = "Init"
                  \/ m.kind = "Track" /\ m.flag = strm[s].tracked
       IN /\ strm' = [strm EXCEPT ![s].up = Tail(@),
                                  ![s].tracked = IF m.kind = "Track" THEN m.flag ELSE @]
          /\ serverq' = IF dup THEN serverq ELSE Append(serverq, m)
          /\ UNCHANGED <<mgr, last>>
  ELSE /\ ~strm[s].open /\ strm[s].tracked
       /\ strm' = [strm EXCEPT ![s].tracked = FALSE]
       /\ serverq' = Append(serverq, UpTrack(FALSE))
       /\ UNCHANGED <<mgr, last>>

\* the forwarding task of handle_stream takes one broadcast. A lagging
\* receiver gets Err(Lagged): the while-let loop ends and stream_tx is dropped
StreamForward(s) ==
  /\ strm[s].fwd
  /\ strm[s].lagged \/ strm[s].bus # <<>>
  /\ IF strm[s].lagged
     THEN /\ strm' = [strm EXCEPT ![s].fwd = FALSE, ![s].bus = <<>>]
          /\ UNCHANGED serverq
     ELSE LET m == Head(strm[s].bus)
              err == m.kind = "Error" /\ m.flag
          IN IF ~strm[s].tracked
             THEN /\ strm' = [strm EXCEPT ![s].bus = Tail(@)]
                  /\ UNCHANGED serverq
             ELSE /\ strm' = [strm EXCEPT
                                ![s].bus = Tail(@),
                                \* debug_assert!(tracked.remove(icao)) runs
                                \* only in a build with debug assertions
                                ![s].tracked = IF err /\ ~mgr.release THEN FALSE ELSE @,
                                ![s].down = IF strm[s].open THEN Append(@, m) ELSE @,
                                \* a failed stream_tx.send ends the task
                                ![s].fwd = strm[s].open]
                  /\ serverq' = IF err THEN Append(serverq, UpTrack(FALSE)) ELSE serverq
  /\ UNCHANGED <<mgr, last>>

\* AerodromeManager::track that keeps the socket when the last tracker leaves
MgrTrackKeepSocket(m, ss, t, ok) ==
  LET after == IF t THEN m.trackers + 1
               ELSE IF m.trackers > 0 THEN m.trackers - 1 ELSE m.trackers
      m1 == [m EXCEPT !.trackers = after]
      attempt == after = 1 /\ t /\ m.socket = 0 /\ m.upstream
      m2 == IF attempt /\ ok
            THEN [m1 EXCEPT !.socket = m.opened + 1, !.opened = @ + 1,
                            !.tasks = @ \cup {m.opened + 1}]
            ELSE m1
      out == IF attempt /\ ~ok THEN <<DownError(TRUE)>>
             ELSE IF t THEN SyncMessages(m2) ELSE <<>>
  IN [mgr |-> m2,
      strm |-> Broadcast(ss, out),
      last |-> [called |-> TRUE, track |-> t, before |-> m.trackers,
                after |-> after, attempted |-> after = 1 /\ t,
                closed |-> after = 0,
                \* no other message has been served since this call
                fresh |-> TRUE]]

\* AerodromeManager::track, the whole call: count, then disconnect() or
\* connect() (ok: whether connect_async succeeds), then sync_clients()
MgrTrack(m, ss, t, ok) ==
  LET after == IF t THEN m.trackers + 1
               ELSE IF m.trackers > 0 THEN m.trackers - 1 ELSE m.trackers
      m1 == [m EXCEPT !.trackers = after]
      attempt == after = 1 /\ t /\ m.socket = 0 /\ m.upstream
      failed == attempt /\ ~ok
      m2 == IF after = 0 THEN [m1 EXCEPT !.socket = 0]
            ELSE IF attempt /\ ok
            THEN [m1 EXCEPT !.socket = m.opened + 1, !.opened = @ + 1,
                            !.tasks = @ \cup {m.opened + 1}]
            ELSE m1
      out == IF failed THEN <<DownError(TRUE)>>
             ELSE IF t THEN SyncMessages(m2) ELSE <<>>
  IN [mgr |-> m2,
      strm |-> Broadcast(ss, out),
      last |-> [called |-> TRUE, track |-> t, before |-> m.trackers,
                after |-> after, attempted |-> after = 1 /\ t,
                closed |-> after = 0,
                \* no other message has been served since this call
                fresh |-> TRUE]]

\* AerodromeManager::control
MgrControl(m, ss, c) ==
  [mgr |-> [m EXCEPT !.controlling = c],
   strm |-> Broadcast(ss, <<DownControl(c)>>),
   last |-> [last EXCEPT !.fresh = FALSE]]

\* one iteration of Worker::serve
ServeStep ==
  /\ serverq # <<>>
  /\ \E ok \in (IF mgr.opened < MaxSockets THEN BOOLEAN ELSE {FALSE}) :
       LET m == Head(serverq)
           r == IF m.kind = "Track" THEN MgrTrack(mgr, strm, m.flag, ok)
                ELSE MgrControl(mgr, strm, m.flag)
       IN mgr' = r.mgr /\ strm' = r.strm /\ last' = r.last
  /\ serverq' = Tail(serverq)

\* Worker::serve while the buses have room (model bound)
Serve == BusRoom(3) /\ ServeStep

\* a disconnect_forced without the socket-identity comparison
SockTaskEndAlways(id) ==
  /\ id \in mgr.tasks
  /\ BusRoom(1)
  /\ mgr' = [mgr EXCEPT !.socket = 0, !.tasks = @ \ {id}]
  /\ strm' = Broadcast(strm, <<DownError(TRUE)>>)
  /\ UNCHANGED <<serverq, last>>

\* the socket task of socket id sees the connection closed or failing and
\* calls disconnect_forced, then ends
SockTaskEnd(id) ==
  /\ id \in mgr.tasks
  /\ BusRoom(1)
  /\ IF mgr.socket = id
     THEN /\ mgr' = [mgr EXCEPT !.socket = 0, !.tasks = @ \ {id}]
          /\ strm' = Broadcast(strm, <<DownError(TRUE)>>)
     ELSE /\ mgr' = [mgr EXCEPT !.tasks = @ \ {id}]
          /\ UNCHANGED strm
  /\ UNCHANGED <<serverq, last>>

WorkerNext ==
  /\ UNCHANGED toolVars
  /\ UNCHANGED clientVars
  /\ UNCHANGED echoVars
  /\ \/ \E s \in Streams, t \in BOOLEAN : CliTrack(s, t)
     \/ \E s \in Streams : CliTick(s)
     \/ \E s \in Streams : CliClose(s)
     \/ \E s \in Streams : StreamRead(s)
     \/ \E s \in Streams : StreamForward(s)
     \/ Serve
     \/ \E id \in 1 .. MaxSockets : SockTaskEnd(id)

ClientInit ==
  /\ aero = AerodromeNew
  /\ now = 0
  /\ inbox = <<>>
  /\ sent = <<>>
  /\ hist = <<>>
  /\ scen = ScenIdle
  /\ steps = 0

\* the client model runs beside an idle worker
Init == ClientInit /\ WorkerInit(FALSE, FALSE) /\ EchoIdle /\ ToolIdle

\* the worker model: either build profile, with or without upstream server
InitWorker ==
  /\ ToolIdle
  /\ ClientInit
  /\ EchoIdle
  /\ \E release \in BOOLEAN, upstream \in BOOLEAN : WorkerInit(release, upstream)

SpecWorker == InitWorker /\ [][WorkerNext]_vars

\* a stream whose client has gone and whose two tasks have ended
StreamEnded == [StreamInit EXCEPT !.open = FALSE, !.fwd = FALSE]

\* the bus model: stream 1's client tracks the aerodrome, has been
\* synchronised and keeps sending Control, stream 2 has ended, there is no
\* upstream server, and at most MaxQueued messages wait in the queues before
\* and after the bus
InitBus ==
  /\ ToolIdle
  /\ ClientInit
  /\ EchoIdle
  /\ \E release \in BOOLEAN :
       mgr = [ManagerNew(release, FALSE) EXCEPT !.config = TRUE, !.trackers = 1]
  /\ strm = [s \in Streams |->
              IF s = 1
              THEN [StreamInit EXCEPT !.tracked = TRUE, !.has = TRUE,
                                      !.act = "Observing"]
              ELSE StreamEnded]
  /\ serverq = <<>>
  /\ last = LastNone

BusNext ==
  /\ UNCHANGED toolVars
  /\ UNCHANGED clientVars
  /\ UNCHANGED echoVars
  /\ \/ \E s \in Streams, t \in BOOLEAN :
          strm[s].up = <<>> /\ CliTrack(s, t)
     \/ \E s \in Streams : strm[s].up = <<>> /\ CliControl(s)
     \/ \E s \in Streams : CliTick(s)
     \/ \E s \in Streams : Len(serverq) < MaxQueued /\ StreamRead(s)
     \/ \E s \in Streams : Len(strm[s].down) < MaxQueued /\ StreamForward(s)
     \/ ServeStep

SpecBus == InitBus /\ [][BusNext]_vars

\* ------------------------------------------- client/worker synchronisation
\* the aerodrome all messages are about
Icao == "ICAO"

\* format!("server: {icao}: {}", text)
UserMessage(text) == <<"server: ", Icao, ": ", text>>

\* Channel::send by the client of a stream
Sent(st, m) ==
  [st EXCEPT !.up = Append(@, m),
             !.first = IF @ = "none" THEN m.kind ELSE @]

\* Client::new: Init is sent before the client exists
ClientNew(st) == Sent(st, UpInit)

\* the client as Client::tick sees it: whether aerodromes has the aerodrome,
\* the Aerodrome (AerodromeNew stands for an absent one), its ActivityState,
\* the messages sent and the user messages collected
ClientOf(st, a) ==
  [has |-> st.has, act |-> st.act, aero |-> a, up |-> <<>>, user |-> <<>>]

\* Client::set_tracking
SetTracking(c, t) ==
  [(IF t THEN c
    ELSE [c EXCEPT !.has = FALSE, !.act = "None", !.aero = AerodromeNew])
   EXCEPT !.up = Append(@, UpTrack(t))]

\* a Client::tick that stops tracking on every Error
ClientRecvUntrackAlways(c, m) ==
  CASE m.kind = "Config" ->
         IF c.has THEN c
         ELSE [c EXCEPT !.has = TRUE, !.act = "None", !.aero = AerodromeNew]
    [] m.kind = "Control" ->
         IF c.has
         THEN [c EXCEPT !.act = IF m.flag THEN "Controlling" ELSE "Observing"]
         ELSE c
    [] m.kind = "Patch" ->
         IF c.has THEN [c EXCEPT !.aero = ApplyPatch(@, m.patch)] ELSE c
    [] m.kind = "Error" ->
         SetTracking([c EXCEPT !.user = Append(@, UserMessage(
                        IF m.message = None THEN "error" ELSE Unwrap(m.message)))],
                     FALSE)

\* one arm of the match in Client::tick
ClientRecv(c, m) ==
  CASE m.kind = "Config" ->
         IF c.has THEN c
         ELSE [c EXCEPT !.has = TRUE, !.act = "None", !.aero = AerodromeNew]
    [] m.kind = "Control" ->
         IF c.has
         THEN [c EXCEPT !.act = IF m.flag THEN "Controlling" ELSE "Observing"]
         ELSE c
    [] m.kind = "Patch" ->
         IF c.has THEN [c EXCEPT !.aero = ApplyPatch(@, m.patch)] ELSE c
    [] m.kind = "Error" ->
         LET c1 == [c EXCEPT !.user = Append(@, UserMessage(
                       IF m.message = None THEN "error" ELSE Unwrap(m.message)))]
         IN IF m.flag THEN SetTracking(c1, FALSE) ELSE c1

\* the while-let loop of Client::tick
RECURSIVE ClientDrain(_, _)
ClientDrain(c, msgs) ==
  IF msgs = <<>> THEN c ELSE ClientDrain(ClientRecv(c, Head(msgs)), Tail(msgs))

\* the for loop of Client::tick: Aerodrome::tick, then the pending patch is
\* taken and sent if it is not empty
\* A flush that transmits the taken patch without the is_empty() test.
ClientFlushAlways(c, t) ==
  IF ~c.has THEN c
  ELSE LET a2 == AerodromeTick(c.aero, t)
       IN [c EXCEPT !.aero = [a2 EXCEPT !.pending_patch = PatchDefault],
                    !.up = Append(@, UpPatch(a2.pending_patch))]

ClientFlush(c, t) ==
  IF ~c.has THEN c
  ELSE LET a2 == AerodromeTick(c.aero, t)
       IN [c EXCEPT !.aero = [a2 EXCEPT !.pending_patch = PatchDefault],
                    !.up = IF PatchIsEmpty(a2.pending_patch) THEN @
                           ELSE Append(@, UpPatch(a2.pending_patch))]

\* Client::tick
ClientTick(c, msgs, t) == ClientFlush(ClientDrain(c, msgs), t)

\* the Aerodrome of the client of stream s
CliAero(s) == IF s = 1 THEN aero ELSE aeroB

SetCliAero(s, a) ==
  IF s = 1 THEN aero' = a /\ UNCHANGED aeroB ELSE aeroB' = a /\ UNCHANGED aero

\* the client of stream s calls Client::set_tracking(icao, t)
SyncCliTrack(s, t) ==
  /\ strm[s].open /\ steps < MaxSyncOps
  /\ LET c == SetTracking(ClientOf(strm[s], CliAero(s)), t)
     IN /\ strm' = [strm EXCEPT ![s] = [Sent(@, UpTrack(t)) EXCEPT
                                          !.has = c.has, !.act = c.act]]
        /\ SetCliAero(s, c.aero)
  /\ steps' = steps + 1
  /\ UNCHANGED <<mgr, serverq, last>>

\* the client of stream s calls Client::set_controlling(icao, c); nothing is
\* sent for an aerodrome the client does not have
SyncCliControl(s, c) ==
  /\ strm[s].open /\ steps < MaxSyncOps
  /\ strm[s].has
  /\ strm' = [strm EXCEPT ![s] = Sent(@, UpControl(c))]
  /\ steps' = steps + 1
  /\ UNCHANGED <<mgr, serverq, last, aero, aeroB>>

\* the user of client s clicks node 0: Aerodrome::set_node
SyncCliSetNode(s, v) ==
  /\ strm[s].open /\ strm[s].has /\ steps < MaxSyncOps
  /\ SetCliAero(s, SetNode(CliAero(s), 0, v, now))
  /\ steps' = steps + 1
  /\ UNCHANGED <<mgr, strm, serverq, last>>

\* Client::tick of the client of stream s
SyncCliTick(s) ==
  LET c == ClientTick(ClientOf(strm[s], CliAero(s)), strm[s].down, now)
  IN /\ strm[s].open
     /\ strm[s].down # <<>> \/ ~PatchIsEmpty(CliAero(s).pending_patch)
     /\ strm' = [strm EXCEPT ![s].down = <<>>,
                             ![s].up = @ \o c.up,
                             ![s].has = c.has,
                             ![s].act = c.act,
                             ![s].user = c.user]
     /\ SetCliAero(s, c.aero)
     /\ UNCHANGED <<mgr, serverq, last, steps>>

\* AerodromeManager::patch without a socket
MgrPatchLocal(m, ss, patch) ==
  [mgr |-> [m EXCEPT !.state = PatchApplyPatch(@, patch)],
   strm |-> Broadcast(ss, <<DownPatch(patch)>>),
   last |-> [last EXCEPT !.fresh = FALSE]]

\* one iteration of Worker::serve of a worker without upstream server
SyncServe ==
  /\ serverq # <<>> /\ BusRoom(3)
  /\ LET m == Head(serverq)
         r == CASE m.kind = "Track" -> MgrTrack(mgr, strm, m.flag, FALSE)
                [] m.kind = "Control" -> MgrControl(mgr, strm, m.flag)
                [] m.kind = "Patch" -> MgrPatchLocal(mgr, strm, m.patch)
     IN mgr' = r.mgr /\ strm' = r.strm /\ last' = r.last
  /\ serverq' = Tail(serverq)
  /\ UNCHANGED <<steps, aero, aeroB>>

\* the task spawned by AerodromeManager::new has loaded the configuration:
\* it stores it and calls sync_clients(). The manager exists from the first
\* message Worker::serve takes for the aerodrome
ConfigLoaded ==
  /\ ~mgr.config
  /\ last.called \/ serverq # <<>>
  /\ BusRoom(3)
  /\ mgr' = [mgr EXCEPT !.config = TRUE]
  /\ strm' = Broadcast(strm, SyncMessages([mgr EXCEPT !.config = TRUE]))
  /\ UNCHANGED <<serverq, last, steps, aero, aeroB>>

SyncStreamRead(s) ==
  StreamRead(s) /\ UNCHANGED <<steps, aero, aeroB>>

SyncStreamForward(s) ==
  StreamForward(s) /\ UNCHANGED <<steps, aero, aeroB>>

\* a client just constructed that has called set_tracking(icao, true), on
\* stream 1 of a worker without upstream server; stream 2 has ended
InitSync ==
  /\ ToolIdle
  /\ ClientInit
  /\ EchoIdle
  /\ mgr = ManagerNew(FALSE, FALSE)
  /\ strm = [s \in Streams |->
              IF s = 1 THEN Sent(ClientNew(StreamInit), UpTrack(TRUE))
              ELSE StreamEnded]
  /\ serverq = <<>>
  /\ last = LastNone

SyncNext ==
  /\ UNCHANGED toolVars
  /\ UNCHANGED <<now, inbox, sent, hist, scen, lk, net, echo>>
  /\ \/ \E s \in Streams, t \in BOOLEAN : SyncCliTrack(s, t)
     \/ \E s \in Streams : SyncCliControl(s, TRUE)
     \/ \E s \in Streams : SyncCliSetNode(s, FALSE)
     \/ \E s \in Streams : SyncCliTick(s)
     \/ \E s \in Streams : SyncStreamRead(s)
     \/ \E s \in Streams : SyncStreamForward(s)
     \/ SyncServe
     \/ ConfigLoaded

SpecSync == InitSync /\ [][SyncNext]_vars

\* ------------------------------------------------- Client::tick on its own
\* the Downstream messages tick() is given: Config, Control, a Patch of
\* node n1, and Errors with and without disconnect, with and without text
TickMessages ==
  {DownConfig, DownControl(TRUE),
   DownPatch([PatchDefault EXCEPT !.nodes = Insert(EmptyMap, "n1", FALSE)])}
  \cup {DownErrorMsg(d, message) :
          d \in BOOLEAN, message \in {None, Some("connection")}}

RECURSIVE TickInboxes(_)
TickInboxes(n) ==
  IF n = 0 THEN {<<>>}
  ELSE LET shorter == TickInboxes(n - 1)
       IN shorter \cup {Append(q, m) : q \in shorter, m \in TickMessages}

\* a client with or without the aerodrome, with or without a click waiting
\* to be sent, and up to MaxTickInbox messages on its channel
InitTick ==
  /\ ToolIdle
  /\ now = 0 /\ inbox = <<>> /\ sent = <<>> /\ hist = <<>>
  /\ scen = ScenIdle /\ steps = 0
  /\ EchoIdle
  /\ mgr = ManagerNew(FALSE, FALSE)
  /\ serverq = <<>>
  /\ last = LastNone
  /\ \E has \in BOOLEAN, clicked \in BOOLEAN, q \in TickInboxes(MaxTickInbox) :
       /\ clicked => has
       /\ q # <<>>
       /\ strm = [s \in Streams |->
                   IF s = 1
                   THEN [StreamInit EXCEPT !.has = has, !.down = q,
                           !.act = IF has THEN "Observing" ELSE "None",
                           !.first = "Init"]
                   ELSE StreamEnded]
       /\ aero = IF clicked THEN SetNode(AerodromeNew, 0, FALSE, 0)
                 ELSE AerodromeNew

TickNext ==
  /\ UNCHANGED toolVars
  /\ UNCHANGED <<now, inbox, sent, hist, scen, lk, net, echo>>
  /\ SyncCliTick(1)

SpecTick == InitTick /\ [][TickNext]_vars

\* C24: whatever the client did before, a tick sends no Upstream::Patch whose
\* patch has no profile, no nodes and no blocks, sends at most one
\* Upstream::Patch for the aerodrome, and leaves the aerodrome's outgoing
\* patch empty; no empty patch is ever found on the upstream channel.
C24_NoEmptyPatchSent ==
  \A s \in Streams :
    /\ \A k \in DOMAIN strm[s].up :
         strm[s].up[k].kind = "Patch" => ~PatchIsEmpty(strm[s].up[k].patch)
    /\ strm[s].open =>
         LET c0 == ClientOf(strm[s], CliAero(s))
             r == ClientTick(c0, strm[s].down, now)
             patches == SelectSeq(r.up, LAMBDA m : m.kind = "Patch")
         IN /\ Len(patches) <= 1
            /\ \A k \in DOMAIN patches : ~PatchIsEmpty(patches[k].patch)
            /\ r.has => r.aero.pending_patch = PatchDefault

C24_PatchFlushed ==
  \E s \in Streams :
    /\ strm[s].open /\ strm[s].has
    /\ \E k \in DOMAIN strm[s].up : strm[s].up[k].kind = "Patch"
    /\ CliAero(s).pending_patch = PatchDefault

\* ------------------------------------------------------ the plugin Context
\* Context::disconnect: the server is stopped and the client dropped
ContextDisconnected(c) ==
  [c EXCEPT !.state = "Disconnected", !.server = FALSE, !.client = FALSE]

\* Context::tick. cancelled: Server::is_cancelled() (Worker::run failed);
\* broken: the client's channel fails, so Client::tick returns Err. The
\* Vec of user messages an Ok tick returns is not looked at
ContextTick ==
  /\ ctx.client
  /\ IF ctx.server /\ ctx.cancelled
     THEN /\ ctx' = [ContextDisconnected(ctx) EXCEPT
                       !.messages = Append(@, "disconnected"),
                       !.state = "Poisoned"]
          /\ strm' = [strm EXCEPT ![1].open = FALSE]
          /\ UNCHANGED aero
     ELSE IF ctx.broken
     THEN /\ ctx' = [ContextDisconnected(ctx) EXCEPT !.state = "Poisoned"]
          /\ strm' = [strm EXCEPT ![1].open = FALSE]
          /\ UNCHANGED aero
     ELSE LET c == ClientTick(ClientOf(strm[1], aero), strm[1].down, now)
          IN /\ strm' = [strm EXCEPT ![1].down = <<>>,
                                     ![1].up = @ \o c.up,
                                     ![1].has = c.has,
                                     ![1].act = c.act,
                                     ![1].user = c.user]
             /\ aero' = c.aero
             /\ UNCHANGED ctx
  /\ UNCHANGED <<mgr, serverq, last>>

\* the user disconnects: Context::disconnect
ContextDisconnect ==
  /\ ctx.client
  /\ ctx' = ContextDisconnected(ctx)
  /\ strm' = [strm EXCEPT ![1].open = FALSE]
  /\ UNCHANGED <<mgr, serverq, last, aero>>

\* a connected Context (connect_direct, connect_local or connect_proxy has
\* succeeded) whose client has or has not the aerodrome, with up to
\* MaxTickInbox messages on the client's channel
InitContext ==
  /\ now = 0 /\ inbox = <<>> /\ sent = <<>> /\ hist = <<>>
  /\ scen = ScenIdle /\ steps = 0
  /\ EchoIdle
  /\ chan = <<>> /\ srv = <<>>
  /\ mgr = ManagerNew(FALSE, FALSE)
  /\ serverq = <<>>
  /\ last = LastNone
  /\ aero = AerodromeNew
  /\ \E state \in {"ConnectedDirect", "ConnectedProxy", "ConnectedLocal"},
        cancelled \in BOOLEAN, broken \in BOOLEAN, has \in BOOLEAN,
        q \in TickInboxes(MaxTickInbox) :
       /\ cancelled => state # "ConnectedProxy"
       /\ ctx = [state |-> state, server |-> state # "ConnectedProxy",
                 client |-> TRUE, messages |-> <<>>,
                 cancelled |-> cancelled, broken |-> broken]
       /\ strm = [s \in Streams |->
                   IF s = 1
                   THEN [StreamInit EXCEPT !.has = has, !.down = q,
                           !.act = IF has THEN "Observing" ELSE "None",
                           !.first = "Init"]
                   ELSE StreamEnded]

ContextNext ==
  /\ UNCHANGED <<now, inbox, sent, hist, scen, steps, lk, net, aeroB, echo,
                 chan, srv>>
  /\ \/ ContextTick
     \/ ContextDisconnect

SpecContext == InitContext /\ [][ContextNext]_vars

\* --------------------------------------------- the two channel backends
\* bincode: a u32 is four bytes, least significant first
U32LE(n) ==
  <<n % 256, (n \div 256) % 256, (n \div 65536) % 256, (n \div 16777216) % 256>>

FromU32LE(b) == b[1] + 256 * b[2] + 65536 * b[3] + 16777216 * b[4]

\* bincode of an enum: the variant's index as u32, then its fields. The
\* messages of the comparison carry one bool; Init carries nothing
UpVariant(kind) ==
  CASE kind = "Init" -> 0 [] kind = "Track" -> 1 [] kind = "Control" -> 2

DownVariant(kind) ==
  CASE kind = "Config" -> 0 [] kind = "Control" -> 1

ChanUp == {UpInit, UpTrack(TRUE), UpControl(TRUE)}
ChanDown == {DownControl(TRUE), DownControl(FALSE)}

EncodeUp(m) ==
  U32LE(UpVariant(m.kind)) \o
    (IF m.kind = "Init" THEN <<>> ELSE <<IF m.flag THEN 1 ELSE 0>>)

EncodeDown(m) == U32LE(DownVariant(m.kind)) \o <<IF m.flag THEN 1 ELSE 0>>

\* bincode::deserialize of a whole payload: Err (None) for a variant index
\* or a length that fits no known message
DecodeUp(bytes) ==
  IF \E m \in ChanUp : EncodeUp(m) = bytes
  THEN Some(CHOOSE m \in ChanUp : EncodeUp(m) = bytes)
  ELSE None

\* Channel::send on Tcp: the length as u32, then the payload
FrameUp(m) == U32LE(Len(EncodeUp(m))) \o EncodeUp(m)

\* ServerChannel::send_tcp: the payload alone
FrameDown(m) == EncodeDown(m)

\* a payload of a kind this build does not know (variant index 9)
UnknownPayload == U32LE(9) \o <<0>>

\* Channel::recv on Mpsc: a queued message, Ok(None) when the queue is empty
\* and the sender lives, Err when it is empty and the sender is gone
RecvMpsc(q, peer) ==
  IF q # <<>> THEN [out |-> <<"message", Head(q)>>, rest |-> Tail(q)]
  ELSE IF peer THEN [out |-> <<"none">>, rest |-> q]
  ELSE [out |-> <<"error">>, rest |-> q]

\* Channel::recv on Tcp: peek() gives Ok(0) at end of stream and WouldBlock
\* on an empty buffer, both Ok(None); otherwise bincode::deserialize_from
\* reads the variant index and the field from the non-blocking stream and
\* fails when the bytes are not there or the index is unknown
RecvTcp(buf, peer) ==
  IF buf = <<>> THEN [out |-> <<"none">>, rest |-> buf]
  ELSE IF Len(buf) < 4 THEN [out |-> <<"error">>, rest |-> <<>>]
  ELSE IF \A m \in ChanDown : U32LE(DownVariant(m.kind)) # SubSeq(buf, 1, 4)
  THEN [out |-> <<"error">>, rest |-> SubSeq(buf, 5, Len(buf))]
  ELSE IF Len(buf) < 5 THEN [out |-> <<"error">>, rest |-> <<>>]
  ELSE [out |-> <<"message",
                  CHOOSE m \in ChanDown : EncodeDown(m) = SubSeq(buf, 1, 5)>>,
        rest |-> SubSeq(buf, 6, Len(buf))]

\* the server side sends m: it is in the Mpsc queue at once, and on the wire
\* of the TCP connection
ServerSend(m) ==
  /\ chan.peer /\ chan.sends < MaxFrames
  /\ chan' = [chan EXCEPT !.dq = Append(@, m),
                          !.wire = @ \o FrameDown(m),
                          !.sends = @ + 1]

\* k bytes of the wire arrive in the client's socket buffer
TcpDeliver(k) ==
  /\ k <= Len(chan.wire)
  /\ chan' = [chan EXCEPT !.buf = @ \o SubSeq(chan.wire, 1, k),
                          !.wire = SubSeq(@, k + 1, Len(@))]

\* the server side goes away: the Mpsc sender is dropped, the TCP connection
\* is closed once its bytes are out
PeerClose ==
  /\ chan.peer
  /\ chan' = [chan EXCEPT !.peer = FALSE]

\* the client calls recv() on either backend; synced: everything sent has
\* arrived, so latency is no reason for a difference
ClientRecvBoth ==
  LET m == RecvMpsc(chan.dq, chan.peer)
      t == RecvTcp(chan.buf, chan.peer)
  IN chan' = [chan EXCEPT !.dq = m.rest, !.buf = t.rest,
                          !.outM = m.out, !.outT = t.out,
                          !.synced = chan.wire = <<>> /\ Len(chan.buf) % 5 = 0]

\* the client sends m through Channel::send on Tcp
ClientSendTcp(m) ==
  /\ Len(chan.ubytes) = 0 /\ chan.usends < MaxFrames
  /\ chan' = [chan EXCEPT !.ubytes = FrameUp(m), !.usends = @ + 1]

\* a client of another version sends a frame whose payload kind this
\* worker does not know
ClientSendUnknown ==
  /\ Len(chan.ubytes) = 0 /\ chan.usends < MaxFrames
  /\ chan' = [chan EXCEPT !.ubytes = U32LE(Len(UnknownPayload)) \o UnknownPayload,
                          !.usends = @ + 1, !.unknown = TRUE]

\* the reading task of handle_stream on the TCP stream: recv_tcp reads the
\* length and that many bytes and deserialises them; on Err the task
\* untracks what the stream tracked and ends
ServerReadTcp ==
  /\ chan.reader /\ Len(chan.ubytes) >= 4
  /\ LET n == FromU32LE(SubSeq(chan.ubytes, 1, 4))
         d == DecodeUp(SubSeq(chan.ubytes, 5, 4 + n))
     IN /\ Len(chan.ubytes) >= 4 + n
        /\ IF d = None
           THEN chan' = [chan EXCEPT !.ubytes = SubSeq(@, 5 + n, Len(@)),
                                     !.reader = FALSE,
                                     !.tracked = FALSE,
                                     !.served = IF chan.tracked
                                                THEN Append(@, UpTrack(FALSE))
                                                ELSE @]
           ELSE LET m == Unwrap(d)
                    skip == \/ m.kind = "Init"
                            \/ m.kind = "Track" /\ m.flag = chan.tracked
                IN chan' = [chan EXCEPT
                              !.ubytes = SubSeq(@, 5 + n, Len(@)),
                              !.tracked = IF m.kind = "Track" THEN m.flag ELSE @,
                              !.served = IF skip THEN @ ELSE Append(@, m)]

\* a client channel just connected on both backends
InitChannel ==
  /\ ClientInit
  /\ WorkerInit(FALSE, FALSE)
  /\ EchoIdle
  /\ ctx = [state |-> "Disconnected"] /\ srv = <<>>
  /\ chan = [dq |-> <<>>, wire |-> <<>>, buf |-> <<>>, peer |-> TRUE,
             outM |-> <<"none">>, outT |-> <<"none">>, synced |-> TRUE,
             sends |-> 0,
             ubytes |-> <<>>, usends |-> 0, unknown |-> FALSE,
             reader |-> TRUE, tracked |-> FALSE, served |-> <<>>]

ChannelNext ==
  /\ UNCHANGED <<clientVars, workerVars, echoVars, ctx, srv>>
  /\ \/ \E m \in ChanDown : ServerSend(m)
     \/ \E k \in 1 .. 5 * MaxFrames : TcpDeliver(k)
     \/ PeerClose
     \/ ClientRecvBoth
     \/ \E m \in ChanUp : ClientSendTcp(m)
     \/ ClientSendUnknown
     \/ ServerReadTcp

SpecChannel == InitChannel /\ [][ChannelNext]_vars

\* ------------------------------------------ the authoritative server (tool)
\* serde_json::Value: Null, a number, or an object (a map from keys to values)
JNull == [t |-> "null", v |-> 0, m |-> EmptyMap]
JNum(n) == [t |-> "num", v |-> n, m |-> EmptyMap]
JObj(m) == [t |-> "obj", v |-> 0, m |-> m]
IsObject(j) == j.t = "obj"

\* the values the model draws: leaves, objects of leaves over the inner keys,
\* and objects of those over the outer keys
JsonLeaves == {JNull} \cup {JNum(n) : n \in 1 .. MaxNum}
ObjectsOver(keys, values) ==
  UNION {{JObj(f) : f \in [d -> values]} : d \in SUBSET keys}
JsonInner == JsonLeaves \cup ObjectsOver({"x", "y"}, JsonLeaves)
JsonValues == JsonInner \cup ObjectsOver({"a", "b"}, JsonInner)

\* A merge that replaces the value of every key of the source.
mergeShallow(target, source) ==
  IF IsObject(target) /\ IsObject(source)
  THEN JObj(Extend(target.m, source.m))
  ELSE source

\* fn merge inside Aerodrome::merge_state: the keys of the source are taken
\* one after the other; get_mut finds the key in the target or it is inserted
RECURSIVE merge(_, _), mergeEntries(_, _, _)
merge(target, source) ==
  IF IsObject(target) /\ IsObject(source)
  THEN JObj(mergeEntries(target.m, source.m, DOMAIN source.m))
  ELSE source

mergeEntries(target, source, keys) ==
  IF keys = {} THEN target
  ELSE LET key == CHOOSE k \in keys : TRUE
           value == source[key]
       IN mergeEntries(IF key \in DOMAIN target
                         THEN [target EXCEPT ![key] = merge(@, value)]
                       ELSE Insert(target, key, value),
                       source, keys \ {key})

\* Aerodrome::merge_state
merge_state(a, state) == [a EXCEPT !.state = merge(@, state)]

\* Aerodrome::default()
AerodromeDefault == [controllers |-> {}, objects |-> EmptyMap, state |-> JNull]

\* merge_state applied to an aerodrome whose state is any of the values;
\* acted: merge_state has been called
InitMerge ==
  /\ ClientInit
  /\ WorkerInit(FALSE, FALSE)
  /\ EchoIdle
  /\ ctx = [state |-> "Disconnected"] /\ chan = <<>>
  /\ \E j \in JsonValues \ ObjectsOver({"x", "y"}, JsonLeaves) :
       srv = [aero |-> [AerodromeDefault EXCEPT !.state = j], acted |-> FALSE]

MergeNext ==
  /\ UNCHANGED <<clientVars, workerVars, echoVars, ctx, chan>>
  /\ \E p \in JsonLeaves \cup ObjectsOver({"a", "b"}, JsonInner) :
       srv' = [aero |-> merge_state(srv.aero, p), acted |-> TRUE]

SpecMerge == InitMerge /\ [][MergeNext]_vars

\* ---------------------------------------- sessions of the authoritative server
\* Two clients; the id of a session is its remote address. Session 1 connects
\* with a controller key, session 2 with a controller or an observer key
\* (v.keys): controller in handle is config.controller_keys.contains(key).
Sessions == {1, 2}
IsController(v, s) == v.keys[s]
\* Sender::new(16)
ToolBusCapacity == 16

\* Downstream messages (protocol): one record shape for all
Dn(kind) ==
  [kind |-> kind, id |-> 0, key |-> "", flag |-> FALSE, json |-> JNull,
   objects |-> EmptyMap, text |-> ""]
DnInitialState(controller, objects, state) ==
  [Dn("InitialState") EXCEPT
     !.text = IF controller THEN "controller" ELSE "observer",
     !.objects = objects, !.json = state]
DnStateUpdate(key, os, id) ==
  [Dn("StateUpdate") EXCEPT !.key = key, !.flag = os, !.id = id]
DnSharedStateUpdate(patch, id) ==
  [Dn("SharedStateUpdate") EXCEPT !.json = patch, !.id = id]
DnControllerConnect(id) == [Dn("ControllerConnect") EXCEPT !.id = id]
DnControllerDisconnect(id) == [Dn("ControllerDisconnect") EXCEPT !.id = id]
DnToolError(text) == [Dn("Error") EXCEPT !.text = text]
DnHeartbeatAck == Dn("HeartbeatAck")

\* Upstream messages a client may send as a text frame; "Malformed" is a
\* text frame that is no Upstream message
Up(kind) == [kind |-> kind, key |-> "", flag |-> FALSE, json |-> JNull]
UpStateUpdate(key, os) == [Up("StateUpdate") EXCEPT !.key = key, !.flag = os]
UpSharedStateUpdate(patch) == [Up("SharedStateUpdate") EXCEPT !.json = patch]
SharedPatches ==
  {JObj([k \in {"a"} |-> JObj([j \in {"x"} |-> JNum(1)])]),
   JObj([k \in {"a"} |-> JNum(1)])}
Mutations ==
  {UpStateUpdate("o1", TRUE)} \cup {UpSharedStateUpdate(p) : p \in SharedPatches}
TextFrames == Mutations \cup {Up("Heartbeat")}

\* Sender::send: the message is put on the bus whoever is subscribed
BusSend(v, message) == [v EXCEPT !.log = Append(@, message)]
\* send(&mut conn, message) of handle_socket
SendTo(v, s, message) == [v EXCEPT !.sess[s].out = Append(@, message)]

\* handle, "/connect": after the upgrade a controller's id is inserted and
\* ControllerConnect is broadcast, both under the state lock
Connect(v, s) ==
  LET v1 == [v EXCEPT !.sess[s].phase = "upgraded"]
  IN IF IsController(v, s)
     THEN BusSend([v1 EXCEPT !.aero.controllers = @ \cup {s}],
                    DnControllerConnect(s))
     ELSE v1

\* a receiver that misses the first broadcast after it was created
SubscribeLate(v, s) ==
  [v EXCEPT !.sess[s].phase = "subscribed", !.sess[s].next = Len(v.log) + 2]

\* handle_socket: rx = tx.subscribe()
Subscribe(v, s) ==
  [v EXCEPT !.sess[s].phase = "subscribed", !.sess[s].next = Len(v.log) + 1]

\* handle_socket: InitialState from the aerodrome under its lock
InitialState(v, s) ==
  SendTo([v EXCEPT !.sess[s].phase = "open"], s,
         DnInitialState(IsController(v, s), v.aero.objects, v.aero.state))

\* handle_socket, the rx.recv() arm of select!: a receiver more than the
\* capacity behind gets Err(Lagged), which the pattern Ok(message) does not
\* match: nothing is sent and the receiver goes on at the oldest message kept
Forward(v, s) ==
  LET n == v.sess[s].next
  IN IF Len(v.log) - n + 1 > ToolBusCapacity
     THEN [v EXCEPT !.sess[s].next = Len(v.log) - ToolBusCapacity + 1,
                    !.sess[s].lagged = TRUE]
     ELSE SendTo([v EXCEPT !.sess[s].next = n + 1], s, v.log[n])

\* A handler that takes a mutation from any session as from a controller.
HandleTextAnyRole(v, s, m) ==
  CASE m.kind = "Malformed" -> SendTo(v, s, DnToolError("malformed message"))
    [] m.kind = "Heartbeat" -> SendTo(v, s, DnHeartbeatAck)
    [] m.kind = "StateUpdate" ->
         BusSend([v EXCEPT !.aero.objects = Insert(@, m.key, m.flag)],
                   DnStateUpdate(m.key, m.flag, s))
    [] m.kind = "SharedStateUpdate" ->
         BusSend([v EXCEPT !.aero = merge_state(@, m.json)],
                   DnSharedStateUpdate(m.json, s))

\* handle_socket, Some(Ok(Message::Text(message))) but Upstream::Close
HandleText(v, s, m) ==
  CASE m.kind = "Malformed" -> SendTo(v, s, DnToolError("malformed message"))
    [] m.kind = "Heartbeat" -> SendTo(v, s, DnHeartbeatAck)
    [] m.kind = "StateUpdate" /\ IsController(v, s) ->
         BusSend([v EXCEPT !.aero.objects = Insert(@, m.key, m.flag)],
                   DnStateUpdate(m.key, m.flag, s))
    [] m.kind = "SharedStateUpdate" /\ IsController(v, s) ->
         BusSend([v EXCEPT !.aero = merge_state(@, m.json)],
                   DnSharedStateUpdate(m.json, s))
    [] OTHER -> SendTo(v, s, DnToolError("invalid message"))

\* handle_socket returns: Upstream::Close, a Close frame or the end of the
\* stream, a websocket error, or a send that failed; rx is dropped
SessionEnd(v, s) == [v EXCEPT !.sess[s].phase = "ended"]

\* A cleanup that clears objects and state whoever else is connected.
SessionCleanupClearing(v, s) ==
  LET v1 == [v EXCEPT !.sess[s].phase = "done"]
  IN IF IsController(v, s)
     THEN BusSend([v1 EXCEPT !.aero = [AerodromeDefault EXCEPT
                                          !.controllers = v.aero.controllers \ {s}]],
                    DnControllerDisconnect(s))
     ELSE v1

\* handle, "/connect", after handle_socket: the id is removed, objects and
\* state are cleared if no controller is left, ControllerDisconnect is sent
SessionCleanup(v, s) ==
  LET v1 == [v EXCEPT !.sess[s].phase = "done"]
      left == v.aero.controllers \ {s}
  IN IF IsController(v, s)
     THEN BusSend(
            [v1 EXCEPT !.aero = IF s \in v.aero.controllers /\ left = {}
                                  THEN AerodromeDefault
                                ELSE [@ EXCEPT !.controllers = left]],
            DnControllerDisconnect(s))
     ELSE v1

ServerStep(v) ==
  /\ srv' = v
  /\ UNCHANGED <<clientVars, workerVars, echoVars, ctx, chan>>

DoConnect(s) == srv.sess[s].phase = "idle" /\ ServerStep(Connect(srv, s))
DoSubscribe(s) ==
  srv.sess[s].phase = "upgraded" /\ ServerStep(Subscribe(srv, s))
DoInitialState(s) ==
  srv.sess[s].phase = "subscribed" /\ ServerStep(InitialState(srv, s))
DoForward(s) ==
  /\ srv.sess[s].phase = "open"
  /\ srv.sess[s].next <= Len(srv.log)
  /\ ServerStep(Forward(srv, s))
DoText(s, m) ==
  /\ srv.sess[s].phase = "open"
  /\ srv.texts < MaxUpdates
  /\ ServerStep([HandleText(srv, s, m) EXCEPT !.texts = @ + 1])
DoEnd(s) ==
  /\ srv.sess[s].phase \in {"subscribed", "open"}
  /\ ServerStep(SessionEnd(srv, s))
DoCleanup(s) ==
  srv.sess[s].phase = "ended" /\ ServerStep(SessionCleanup(srv, s))

SessionIdle ==
  [phase |-> "idle", next |-> 1, lagged |-> FALSE, out |-> <<>>]

\* the server just started: State::new(), nobody connected
InitServer ==
  /\ ClientInit
  /\ WorkerInit(FALSE, FALSE)
  /\ EchoIdle
  /\ ctx = [state |-> "Disconnected"] /\ chan = <<>>
  /\ \E second \in BOOLEAN :
       srv = [aero |-> AerodromeDefault, log |-> <<>>, texts |-> 0,
              keys |-> <<TRUE, second>>,
              sess |-> [s \in Sessions |-> SessionIdle]]

ServerNext ==
  \E s \in Sessions :
    \/ DoConnect(s)
    \/ DoSubscribe(s)
    \/ DoInitialState(s)
    \/ DoForward(s)
    \/ \E m \in TextFrames : DoText(s, m)
    \/ DoEnd(s)
    \/ DoCleanup(s)

SpecServer == InitServer /\ [][ServerNext]_vars

\* A server that has run for a while. A controller, id 0, that takes no
\* further part sent SharedStateUpdate {b:1} and then {a:1} fourteen times;
\* observer 2 subscribed right after that controller connected and its task
\* has not yet taken any broadcast from its receiver; client 1 is yet to
\* connect.
Backlog ==
  <<DnControllerConnect(0),
    DnSharedStateUpdate(JObj([k \in {"b"} |-> JNum(1)]), 0)>>
  \o [i \in 1 .. ToolBusCapacity - 2 |->
        DnSharedStateUpdate(JObj([k \in {"a"} |-> JNum(1)]), 0)]

InitBacklog ==
  /\ ClientInit
  /\ WorkerInit(FALSE, FALSE)
  /\ EchoIdle
  /\ ctx = [state |-> "Disconnected"] /\ chan = <<>>
  /\ srv = [aero |-> [controllers |-> {0}, objects |-> EmptyMap,
                      state |-> JObj([k \in {"a", "b"} |-> JNum(1)])],
            log |-> Backlog, texts |-> 0, keys |-> <<TRUE, FALSE>>,
            sess |-> [s \in Sessions |->
                       IF s = 1 THEN SessionIdle
                       ELSE [SessionIdle EXCEPT
                               !.phase = "open", !.next = 2,
                               !.out = <<DnInitialState(FALSE, EmptyMap, JNull)>>]]]

SpecBacklog == InitBacklog /\ [][ServerNext]_vars


\* ------------------------------------------------------ derivation engine
\* A node_state whose Router arm counts every Route as permitting.
node_stateAnyRoute(a, node) ==
  LET c == NodeCond(a.profile, node)
  IN CASE c.kind = "Fixed" -> c.state
       [] c.kind = "Direct" -> Effective(a.nodes[node])
       [] c.kind = "Router" ->
            \E k \in 1 .. 2 :
              Effective(a.blocks[NodeBlocks(node)[k]]) # Relax

\* Aerodrome::node_state
node_state(a, node) ==
  LET c == NodeCond(a.profile, node)
  IN CASE c.kind = "Fixed" -> c.state
       [] c.kind = "Direct" -> Effective(a.nodes[node])
       [] c.kind = "Router" ->
            \E k \in 1 .. 2 :
              LET state == Effective(a.blocks[NodeBlocks(node)[k]])
              IN \/ state = Clear
                 \/ state[1] = "Route" /\ state[2] # node /\ state[3] # node


\* config.nodes[i].parent: n3 and n4 are children of n2
ConfigParents == <<None, None, Some(1), Some(1)>>
\* config.blocks[b].non_routes: none in this configuration
NonRoutes(block) == {}

\* bars_config::EdgeCondition
EdgeFixed(s) == [kind |-> "Fixed", state |-> s, node |-> 0, block |-> 0, routes |-> <<>>]
EdgeDirect(n) == [kind |-> "Direct", state |-> FALSE, node |-> n, block |-> 0, routes |-> <<>>]
EdgeRouter(b, rs) == [kind |-> "Router", state |-> FALSE, node |-> 0, block |-> b, routes |-> rs]
\* profile.edges, the same in every profile of the configuration: two edges
\* on block b1 lit for the route to n3, resp. for the routes to n3 and n4
ConfigEdges ==
  <<EdgeFixed(TRUE), EdgeDirect(0),
    EdgeRouter(0, << <<0, 2>> >>),
    EdgeRouter(0, << <<0, 2>>, <<3, 0>> >>)>>
EdgeIx == 0 .. (Len(ConfigEdges) - 1)
EdgeCond(p, e) == At(ConfigEdges, e)

\* children.get(&p).unwrap_or(&vec![p]): the children in index order
Children(p) ==
  LET kids == SelectSeq([k \in 1 .. NNodes |-> k - 1],
                        LAMBDA i : At(ConfigParents, i) = Some(p))
  IN IF kids = <<>> THEN <<p>> ELSE kids

Elems(seq) == {seq[k] : k \in DOMAIN seq}

\* Aerodrome::route_candidates
route_candidates(a, block) ==
  LET state == Effective(a.blocks[block])
  IN IF state[1] # "Route" THEN <<>>
     ELSE LET ac == Children(state[2])
              bc == Children(state[3])
              pairs == [k \in 1 .. Len(ac) * Len(bc) |->
                          <<ac[((k - 1) \div Len(bc)) + 1],
                            bc[((k - 1) % Len(bc)) + 1]>>]
          IN SelectSeq(pairs,
                       LAMBDA r : /\ <<r[1], r[2]>> \notin NonRoutes(block)
                                  /\ <<r[2], r[1]>> \notin NonRoutes(block))

\* edge_state: the block next to `block` at the node `parent`
Adjacent(block, parent) ==
  IF NodeBlocks(parent)[1] # block THEN NodeBlocks(parent)[1]
  ELSE NodeBlocks(parent)[2]

\* edge_state: one turn of the loop over the two ends of the route; slot is
\* 1 for the candidates' first nodes (at ap), 2 for their second (at bp)
Restricted(a, block, parent, slot, cands) ==
  LET state == Effective(a.blocks[Adjacent(block, parent)])
      points == route_candidates(a, Adjacent(block, parent))
  IN CASE state = Clear -> cands
       [] state = Relax -> {}
       [] OTHER ->
            IF state[2] = parent THEN {points[k][1] : k \in DOMAIN points}
            ELSE IF state[3] = parent THEN {points[k][2] : k \in DOMAIN points}
            ELSE cands

\* Aerodrome::edge_state
edge_state(a, edge) ==
  LET c == EdgeCond(a.profile, edge)
  IN CASE c.kind = "Fixed" -> c.state
       [] c.kind = "Direct" -> ~node_state(a, c.node)
       [] c.kind = "Router" ->
            LET state == Effective(a.blocks[c.block])
                cands == route_candidates(a, c.block)
            IN CASE state = Clear -> FALSE
                 [] state = Relax -> TRUE
                 [] OTHER ->
                      IF Len(cands) = 0 THEN FALSE
                      ELSE IF Len(cands) = 1
                        THEN \/ cands[1] \in Elems(c.routes)
                             \/ <<cands[1][2], cands[1][1]>> \in Elems(c.routes)
                      ELSE LET ac == Elems(Children(state[2]))
                               turned == {IF r[1] \in ac THEN r ELSE <<r[2], r[1]>> :
                                            r \in Elems(c.routes)}
                               matches0 == {r[1] : r \in turned}
                               matches1 == {r[2] : r \in turned}
                               cands0 == Restricted(a, c.block, state[2], 1,
                                                    {r[1] : r \in Elems(cands)})
                               cands1 == Restricted(a, c.block, state[3], 2,
                                                    {r[2] : r \in Elems(cands)})
                           IN cands0 \subseteq matches0 /\ cands1 \subseteq matches1

\* the states a block can be given by a patch: Clear, Relax, or a route
\* between two of its boundary nodes
BlockInputs(b) ==
  LET ns == Elems(At(ConfigBlocks, b).nodes)
  IN {Clear, Relax} \cup {Route(r[1], r[2]) : r \in {q \in ns \X ns : q[1] # q[2]}}

\* screen click or API call: Aerodrome::set_node
DoSetNode(node, state) ==
  /\ aero' = SetNode(aero, node, state, now)
  /\ steps' = steps + 1
  /\ UNCHANGED <<now, hist>>

\* screen click: Aerodrome::set_block
DoSetBlock(block, state) ==
  /\ aero' = SetBlock(aero, block, state, now)
  /\ steps' = steps + 1
  /\ UNCHANGED <<now, hist>>

\* screen click on two Router nodes: Aerodrome::set_route
DoSetRoute(orgn, dest) ==
  /\ aero' = SetRoute(aero, orgn, dest, now)
  /\ steps' = steps + 1
  /\ UNCHANGED <<now, hist>>

\* Aerodrome::set_profile
DoSetProfile(i) ==
  /\ aero' = SetProfile(aero, i)
  /\ steps' = steps + 1
  /\ UNCHANGED <<now, hist>>

\* Aerodrome::apply_preset
DoApplyPreset(i) ==
  /\ aero' = ApplyPreset(aero, i)
  /\ steps' = steps + 1
  /\ UNCHANGED <<now, hist>>

\* Client::tick finding msgs in the channel
DoTick(msgs) ==
  /\ aero' = TickResult(aero, msgs, now).aero
  /\ hist' = msgs
  /\ steps' = steps + 1
  /\ UNCHANGED now

\* time passes
AdvanceTime ==
  /\ now < MaxTime
  /\ now' = now + 1
  /\ steps' = steps + 1
  /\ UNCHANGED <<aero, hist>>

\* The client alone: local operations, and ticks that find any inbound patches
Next ==
  /\ UNCHANGED toolVars
  /\ steps < MaxSteps
  /\ UNCHANGED <<inbox, sent, scen>>
  /\ UNCHANGED workerVars
  /\ UNCHANGED echoVars
  /\ \/ \E node \in NodeIx, state \in BOOLEAN : DoSetNode(node, state)
     \/ \E block \in BlockIx, state \in ClickStates : DoSetBlock(block, state)
     \/ \E orgn \in NodeIx, dest \in NodeIx : DoSetRoute(orgn, dest)
     \/ \E i \in Indices(ConfigProfiles) : DoSetProfile(i)
     \/ \E i \in 0 .. 1 : DoApplyPreset(i)
     \/ \E msgs \in InboxChoices : DoTick(msgs)
     \/ AdvanceTime

Spec == Init /\ [][Next]_vars


\* the derivation functions: an aerodrome whose profile and confirmed block
\* states are the ones inbound patches have set, one operation from the end
InitDerive ==
  /\ WorkerInit(FALSE, FALSE)
  /\ EchoIdle
  /\ ToolIdle
  /\ now = 0 /\ inbox = <<>> /\ sent = <<>> /\ hist = <<>> /\ scen = ScenIdle
  /\ steps = MaxSteps - 1
  /\ \E p \in Indices(ConfigProfiles) :
     \E bs \in [BlockIx -> UNION {BlockInputs(b) : b \in BlockIx}] :
       /\ \A b \in BlockIx : bs[b] \in BlockInputs(b)
       /\ aero = [AerodromeNew EXCEPT
                    !.profile = p,
                    !.blocks = [b \in BlockIx |-> Cell(bs[b], None)]]

SpecDerive == InitDerive /\ [][Next]_vars

\* ------------------------------------------- client with its channel (FIFO)
\* patches other clients may have sent, as relayed by the server
ForeignPatches ==
  { Patch(None, [k \in {"n1"} |-> TRUE], EmptyMap),
    Patch(None, EmptyMap, [k \in {"b1"} |-> Relax]) }

PresetCount(a) == Len(At(ConfigProfiles, a.profile).presets)

\* a local operation on the aerodrome ends any preset round trip being followed
LocalOp(a2) ==
  /\ steps < MaxClientSteps
  /\ aero' = a2
  /\ steps' = steps + 1
  /\ scen' = ScenIdle
  /\ UNCHANGED <<now, inbox, sent, hist>>

ChanSetNode(node, state) == LocalOp(SetNode(aero, node, state, now))
ChanSetBlock(block, state) == LocalOp(SetBlock(aero, block, state, now))
ChanSetProfile(i) == LocalOp(SetProfile(aero, i))

\* apply_preset(i); a valid index starts a round trip: remember the effective
\* values just after it, and whether the outgoing patch was empty before it
ChanApplyPreset(i) ==
  /\ steps < MaxClientSteps
  /\ aero' = ApplyPreset(aero, i)
  /\ steps' = steps + 1
  /\ scen' = IF i < PresetCount(aero)
             THEN [phase |-> "applied", eff |-> EffectiveValues(aero'),
                   clean |-> PatchIsEmpty(aero.pending_patch)]
             ELSE ScenIdle
  /\ UNCHANGED <<now, inbox, sent, hist>>

\* Client::tick: drain the channel, run the timers, send the outgoing patch
ChanTick ==
  LET r == TickResult(aero, inbox, now)
      flush == ~PatchIsEmpty(r.out)
      echoed == \E k \in DOMAIN inbox : inbox[k].mark
  IN /\ steps < MaxClientSteps
     /\ flush => Len(sent) < MaxSent
     /\ aero' = r.aero
     /\ inbox' = <<>>
     /\ hist' = inbox
     /\ sent' = IF flush
                THEN Append(sent, Msg(r.out, "echo", scen.phase = "applied"))
                ELSE sent
     /\ scen' = IF scen.phase = "applied" /\ flush
                  THEN [scen EXCEPT !.phase = "flushed"]
                ELSE IF scen.phase = "flushed" /\ echoed
                  THEN [scen EXCEPT !.phase = "echoed"]
                ELSE IF scen.phase = "flushed" THEN scen
                ELSE ScenIdle
     /\ steps' = steps + 1
     /\ UNCHANGED now

\* the server side returns the oldest flushed patch as Downstream::Patch
DeliverEcho ==
  /\ sent # <<>>
  /\ Len(inbox) < MaxInbox
  /\ inbox' = Append(inbox, Head(sent))
  /\ sent' = Tail(sent)
  /\ UNCHANGED <<aero, now, hist, scen, steps>>

\* the server side relays another client's patch
DeliverForeign(p) ==
  /\ steps < MaxClientSteps
  /\ Len(inbox) < MaxInbox
  /\ inbox' = Append(inbox, Msg(p, "foreign", FALSE))
  /\ scen' = ScenIdle
  /\ steps' = steps + 1
  /\ UNCHANGED <<aero, now, sent, hist>>

\* time passes
ChanAdvanceTime ==
  /\ now < MaxTime
  /\ now' = now + 1
  /\ UNCHANGED <<aero, inbox, sent, hist, scen, steps>>

ClientNext ==
  /\ UNCHANGED toolVars
  /\ UNCHANGED workerVars
  /\ UNCHANGED echoVars
  /\ \/ \E node \in NodeIx, state \in BOOLEAN : ChanSetNode(node, state)
     \/ \E block \in BlockIx, state \in ClickStates : ChanSetBlock(block, state)
     \/ \E i \in Indices(ConfigProfiles) : ChanSetProfile(i)
     \/ \E i \in 0 .. 2 : ChanApplyPreset(i)
     \/ ChanTick
     \/ DeliverEcho
     \/ \E p \in ForeignPatches : DeliverForeign(p)
     \/ ChanAdvanceTime

SpecClient == Init /\ [][ClientNext]_vars

\* ------------------------------------- echo of a mutation; the two mutexes

\* a tokio Mutex is fair: a released lock goes to the task waiting for it
ReleaseSockByServe(l) == IF l.tpc = "lock" THEN "sock" ELSE "none"

\* both clients track the aerodrome and hold its config; with an upstream
\* server the socket is open and its task runs
InitEcho ==
  /\ ToolIdle
  /\ ClientInit
  /\ \E release \in BOOLEAN, upstream \in BOOLEAN :
       /\ mgr = [ManagerNew(release, upstream) EXCEPT
                   !.config = TRUE, !.trackers = 2,
                   !.socket = IF upstream THEN 1 ELSE 0,
                   !.tasks = IF upstream THEN {1} ELSE {},
                   !.opened = IF upstream THEN 1 ELSE 0]
       /\ lk = IF upstream
               THEN [LockIdle EXCEPT !.sock = "sock", !.tpc = "wait"]
               ELSE LockIdle
  /\ strm = [s \in Streams |-> [StreamInit EXCEPT !.tracked = TRUE]]
  /\ serverq = <<>>
  /\ last = LastNone
  /\ net = NetIdle
  /\ aeroB = AerodromeNew
  /\ echo = EchoNone

\* the patches among the Downstream messages a client drains
RECURSIVE PatchesOf(_)
PatchesOf(msgs) ==
  IF msgs = <<>> THEN <<>>
  ELSE (IF Head(msgs).kind = "Patch" THEN <<Head(msgs)>> ELSE <<>>)
       \o PatchesOf(Tail(msgs))

\* client A clicks: one node or block mutation
EchoSetNode ==
  /\ echo.phase = "idle"
  /\ aero' = SetNode(aero, 0, FALSE, now)
  /\ echo' = [phase |-> "set", kind |-> "node", cell |-> 0]
  /\ UNCHANGED <<mgr, strm, serverq, last, lk, net, aeroB>>

EchoSetBlock ==
  /\ echo.phase = "idle"
  /\ aero' = SetBlock(aero, 0, Relax, now)
  /\ echo' = [phase |-> "set", kind |-> "block", cell |-> 0]
  /\ UNCHANGED <<mgr, strm, serverq, last, lk, net, aeroB>>

\* Client::tick of client A (stream 1)
EchoTickA ==
  LET r == TickResult(aero, PatchesOf(strm[1].down), now)
      flush == ~PatchIsEmpty(r.out)
  IN /\ strm[1].down # <<>> \/ ~PatchIsEmpty(aero.pending_patch)
     /\ aero' = r.aero
     /\ strm' = [strm EXCEPT
                   ![1].down = <<>>,
                   ![1].up = IF flush THEN Append(@, UpPatch(r.out)) ELSE @]
     /\ echo' = IF flush /\ echo.phase = "set"
                THEN [echo EXCEPT !.phase = "flushed"] ELSE echo
     /\ UNCHANGED <<mgr, serverq, last, lk, net, aeroB>>

\* Client::tick of client B (stream 2), which makes no mutation of its own
EchoTickB ==
  /\ strm[2].down # <<>>
  /\ aeroB' = TickResult(aeroB, PatchesOf(strm[2].down), now).aero
  /\ strm' = [strm EXCEPT ![2].down = <<>>]
  /\ UNCHANGED <<mgr, serverq, last, lk, net, aero, echo>>

\* a patch() that merges the patch into the snapshot in both branches
ServePatchMerging ==
  /\ lk.spc = "idle" /\ serverq # <<>> /\ lk.data = "none"
  /\ mgr' = [mgr EXCEPT !.state = PatchApplyPatch(@, Head(serverq).patch)]
  /\ IF mgr.socket = 0
     THEN /\ strm' = Broadcast(strm, <<DownPatch(Head(serverq).patch)>>)
          /\ serverq' = Tail(serverq)
          /\ UNCHANGED lk
     ELSE /\ lk' = IF lk.sock = "none"
                   THEN [lk EXCEPT !.data = "serve", !.sock = "serve", !.spc = "send"]
                   ELSE [lk EXCEPT !.data = "serve", !.spc = "sock"]
          /\ UNCHANGED <<strm, serverq>>
  /\ UNCHANGED <<last, net, aero, aeroB, echo>>

\* Worker::serve receives an Upstream::Patch and calls patch(): data.lock()
\* is free (the socket task never keeps it across an await). Without a
\* socket the patch is merged and broadcast; with one, patch() goes on to
\* socket.lock() with the data guard held, and waits if the socket task has it
ServePatch ==
  /\ lk.spc = "idle" /\ serverq # <<>> /\ lk.data = "none"
  /\ IF mgr.socket = 0
     THEN /\ mgr' = [mgr EXCEPT !.state = PatchApplyPatch(@, Head(serverq).patch)]
          /\ strm' = Broadcast(strm, <<DownPatch(Head(serverq).patch)>>)
          /\ serverq' = Tail(serverq)
          /\ UNCHANGED lk
     ELSE /\ lk' = IF lk.sock = "none"
                   THEN [lk EXCEPT !.data = "serve", !.sock = "serve", !.spc = "send"]
                   ELSE [lk EXCEPT !.data = "serve", !.spc = "sock"]
          /\ UNCHANGED <<mgr, strm, serverq>>
  /\ UNCHANGED <<last, net, aero, aeroB, echo>>

\* patch(): the socket mutex is handed to the waiting patch()
PatchLockSock ==
  /\ lk.spc = "sock" /\ lk.sock = "serve"
  /\ lk' = [lk EXCEPT !.spc = "send"]
  /\ UNCHANGED <<mgr, strm, serverq, last, net, aero, aeroB, echo>>

\* patch(): SharedStateUpdate is sent; both guards are dropped on return
PatchSend ==
  /\ lk.spc = "send"
  /\ net' = [net EXCEPT !.out = Append(@, Head(serverq).patch)]
  /\ serverq' = Tail(serverq)
  /\ lk' = [lk EXCEPT !.sock = ReleaseSockByServe(lk), !.data = "none", !.spc = "idle"]
  /\ UNCHANGED <<mgr, strm, last, aero, aeroB, echo>>

\* socket task: socket.lock() at the top of the loop is granted and the task
\* waits for a frame
SockLock ==
  /\ lk.tpc = "lock" /\ lk.sock \in {"none", "sock"}
  /\ lk' = [lk EXCEPT !.sock = "sock", !.tpc = "wait"]
  /\ UNCHANGED <<mgr, strm, serverq, last, net, aero, aeroB, echo>>

\* the end of an iteration of the socket task: the socket guard is dropped;
\* a waiting patch() gets the mutex, otherwise the task locks it again at once
EndIteration(l) ==
  IF l.spc = "sock"
  THEN [l EXCEPT !.sock = "serve", !.tpc = "lock"]
  ELSE [l EXCEPT !.sock = "sock", !.tpc = "wait"]

\* socket task: SOCKET_POLL_TIMEOUT passes without a frame while patch()
\* waits for the socket mutex
SockTimeout ==
  /\ lk.tpc = "wait" /\ net.inn = <<>> /\ lk.spc = "sock"
  /\ lk' = EndIteration(lk)
  /\ UNCHANGED <<mgr, strm, serverq, last, net, aero, aeroB, echo>>

\* socket task: an InitialState / SharedStateUpdate frame arrives. With the
\* data mutex free the patch is merged and broadcast and the iteration ends;
\* otherwise the task waits for the data mutex with the socket guard held
SockFrame ==
  /\ lk.tpc = "wait" /\ net.inn # <<>>
  /\ IF lk.data = "none"
     THEN /\ mgr' = [mgr EXCEPT !.state = PatchApplyPatch(@, Head(net.inn))]
          /\ strm' = Broadcast(strm, <<DownPatch(Head(net.inn))>>)
          /\ net' = [net EXCEPT !.inn = Tail(@)]
          /\ lk' = EndIteration(lk)
     ELSE /\ lk' = [lk EXCEPT !.tpc = "data"]
          /\ UNCHANGED <<mgr, strm, net>>
  /\ UNCHANGED <<serverq, last, aero, aeroB, echo>>

\* the authoritative server merges a SharedStateUpdate of this session and
\* sends it to every session of the aerodrome, the sender included
NetEcho ==
  /\ net.out # <<>>
  /\ net' = [net EXCEPT !.out = Tail(@), !.inn = Append(@, Head(net.out))]
  /\ UNCHANGED <<mgr, strm, serverq, last, lk, aero, aeroB, echo>>

\* the authoritative server relays another controller's update (of node n3)
NetForeign ==
  /\ mgr.upstream /\ net.foreign < MaxForeign
  /\ net' = [net EXCEPT
               !.inn = Append(@, Patch(None, [k \in {"n3"} |-> TRUE], EmptyMap)),
               !.foreign = @ + 1]
  /\ UNCHANGED <<mgr, strm, serverq, last, lk, aero, aeroB, echo>>

\* the stream tasks of handle_stream, beside the two clients
EchoStreamRead(s) == StreamRead(s) /\ UNCHANGED <<lk, net, aero, aeroB, echo>>
EchoStreamForward(s) == StreamForward(s) /\ UNCHANGED <<lk, net, aero, aeroB, echo>>

EchoNext ==
  /\ UNCHANGED toolVars
  /\ UNCHANGED <<now, inbox, sent, hist, scen, steps>>
  /\ \/ EchoSetNode
     \/ EchoSetBlock
     \/ EchoTickA
     \/ EchoTickB
     \/ \E s \in Streams : EchoStreamRead(s)
     \/ \E s \in Streams : EchoStreamForward(s)
     \/ ServePatch
     \/ PatchLockSock
     \/ PatchSend
     \/ SockLock
     \/ SockTimeout
     \/ SockFrame
     \/ NetEcho
     \/ NetForeign

\* every task of the runtime that can run does run, the clients keep
\* ticking and the authoritative server keeps answering
EchoFairness ==
  /\ WF_vars(EchoTickA /\ EchoNext)
  /\ WF_vars(EchoTickB /\ EchoNext)
  /\ \A s \in Streams : WF_vars(EchoStreamRead(s) /\ EchoNext)
  /\ \A s \in Streams : WF_vars(EchoStreamForward(s) /\ EchoNext)
  /\ WF_vars((ServePatch \/ PatchLockSock \/ PatchSend) /\ EchoNext)
  /\ WF_vars((SockLock \/ SockTimeout \/ SockFrame) /\ EchoNext)
  /\ WF_vars(NetEcho /\ EchoNext)

SpecEcho == InitEcho /\ [][EchoNext]_vars /\ EchoFairness

\* patch() seen from two streams of which only the first tracks the
\* aerodrome: the second client is connected and follows another aerodrome
InitPatch ==
  /\ ToolIdle
  /\ ClientInit
  /\ \E release \in BOOLEAN, upstream \in BOOLEAN :
       /\ mgr = [ManagerNew(release, upstream) EXCEPT
                   !.config = TRUE, !.trackers = 1,
                   !.socket = IF upstream THEN 1 ELSE 0,
                   !.tasks = IF upstream THEN {1} ELSE {},
                   !.opened = IF upstream THEN 1 ELSE 0]
       /\ lk = IF upstream
               THEN [LockIdle EXCEPT !.sock = "sock", !.tpc = "wait"]
               ELSE LockIdle
  /\ strm = [s \in Streams |-> [StreamInit EXCEPT !.tracked = (s = 1)]]
  /\ serverq = <<>>
  /\ last = LastNone
  /\ net = NetIdle
  /\ aeroB = AerodromeNew
  /\ echo = EchoNone

PatchNext ==
  /\ UNCHANGED toolVars
  /\ UNCHANGED <<now, inbox, sent, hist, scen, steps>>
  /\ \/ EchoSetNode
     \/ EchoSetBlock
     \/ EchoTickA
     \/ \E s \in Streams : EchoStreamRead(s)
     \/ \E s \in Streams : EchoStreamForward(s)
     \/ ServePatch
     \/ PatchLockSock
     \/ PatchSend
     \/ SockLock
     \/ SockTimeout
     \/ SockFrame
     \/ NetEcho
     \/ NetForeign

SpecPatch == InitPatch /\ [][PatchNext]_vars

\* ------------------------------------------------------------------ claims
\* the known cells for which an inbound patch carries a value the client can read
CarriedNodes(p) == {id \in DOMAIN p.nodes : NodeIds(id) # None}
CarriedBlocks(p) ==
  {id \in DOMAIN p.blocks : BlockIds(id) # None /\ BsIpcToConf(p.blocks[id]) # None}

\* C1: after apply_patch of an inbound patch, every known cell the patch
\* carries a value for has no pending overlay, whether the value equals the
\* pending one or differs from it, so its effective value is the server's.
C1_ServerValueWins ==
  \A p \in InboundPatches :
    LET a2 == ApplyPatch(aero, p)
    IN /\ \A id \in CarriedNodes(p) :
            LET c == a2.nodes[Unwrap(NodeIds(id))]
            IN c.pending = None /\ Effective(c) = p.nodes[id]
       /\ \A id \in CarriedBlocks(p) :
            LET c == a2.blocks[Unwrap(BlockIds(id))]
            IN c.pending = None /\ Effective(c) = Unwrap(BsIpcToConf(p.blocks[id]))

\* C1, the half the code satisfies: the confirmed value is the server's, and
\* the overlay is gone when it was absent or equal to the server's value
C1_ConfirmedValueIsServers ==
  \A p \in InboundPatches :
    LET a2 == ApplyPatch(aero, p)
    IN /\ \A id \in CarriedNodes(p) :
            LET i == Unwrap(NodeIds(id))
            IN /\ a2.nodes[i].current = p.nodes[id]
               /\ aero.nodes[i].pending \subseteq Some(p.nodes[id])
                    => a2.nodes[i].pending = None
       /\ \A id \in CarriedBlocks(p) :
            LET i == Unwrap(BlockIds(id))
                v == Unwrap(BsIpcToConf(p.blocks[id]))
            IN /\ a2.blocks[i].current = v
               /\ aero.blocks[i].pending \subseteq Some(v)
                    => a2.blocks[i].pending = None

\* the timers of one cell, in order
TimersOf(timers, i) ==
  LET Is(t) == t[1] = i IN SelectSeq(timers, Is)

KnownProfile(p) ==
  p.profile # None /\ ProfilePosition(Unwrap(p.profile)) # None

\* C7 as stated: an inbound patch carrying the same value as a cell's pending
\* overlay leaves no deferred-reset timer for that cell.
C7_TimerCancelledOnConfirm ==
  \A p \in InboundPatches :
    LET a2 == ApplyPatch(aero, p)
    IN /\ \A id \in CarriedNodes(p) :
            LET i == Unwrap(NodeIds(id))
            IN aero.nodes[i].pending = Some(p.nodes[id])
                 => TimersOf(a2.node_timers, i) = <<>>
       /\ \A id \in CarriedBlocks(p) :
            LET i == Unwrap(BlockIds(id))
            IN aero.blocks[i].pending = BsIpcToConf(p.blocks[id])
                 => TimersOf(a2.block_timers, i) = <<>>

\* C7 amended: a confirming inbound patch clears the overlay and keeps the
\* cell's timer; the timer is dropped when the inbound value differs from the
\* overlay (or there is none), and all timers are dropped by a known profile.
C7_TimerKeptOnConfirm ==
  \A p \in InboundPatches :
    LET a2 == ApplyPatch(aero, p)
    IN IF KnownProfile(p)
       THEN a2.node_timers = <<>> /\ a2.block_timers = <<>>
       ELSE /\ \A id \in CarriedNodes(p) :
                 LET i == Unwrap(NodeIds(id))
                 IN IF aero.nodes[i].pending = Some(p.nodes[id])
                    THEN /\ a2.nodes[i].pending = None
                         /\ TimersOf(a2.node_timers, i) = TimersOf(aero.node_timers, i)
                    ELSE TimersOf(a2.node_timers, i) = <<>>
            /\ \A id \in CarriedBlocks(p) :
                 LET i == Unwrap(BlockIds(id))
                 IN IF aero.blocks[i].pending = BsIpcToConf(p.blocks[id])
                    THEN /\ a2.blocks[i].pending = None
                         /\ TimersOf(a2.block_timers, i) = TimersOf(aero.block_timers, i)
                    ELSE TimersOf(a2.block_timers, i) = <<>>

\* C7 witness: the last tick drained a patch with n1 = false, node n1 is
\* confirmed false with no overlay, and its reset timer is still scheduled
C7_ConfirmedWithTimer ==
  /\ \E k \in DOMAIN hist :
       LET m == hist[k].patch.nodes
       IN "n1" \in DOMAIN m /\ m["n1"] = FALSE
  /\ aero.nodes[0] = Cell(FALSE, None)
  /\ TimersOf(aero.node_timers, 0) # <<>>

\* apply_patch(a) then apply_patch(b), and apply_patch of the merged patch
Sequential(a, b) == ApplyPatch(ApplyPatch(aero, a), b)
Merged(a, b) == ApplyPatch(aero, PatchApplyPatch(a, b))

\* a names a known profile and b an unknown one: merging loses a's profile
ProfileLost(a, b) ==
  KnownProfile(a) /\ b.profile # None /\ ~KnownProfile(b)
\* b overrides a block value of a with a route the client cannot resolve
RouteLost(a, b) ==
  \E id \in (DOMAIN a.blocks) \cap (DOMAIN b.blocks) : BsIpcToConf(b.blocks[id]) = None
DisjointKeys(a, b) ==
  /\ (DOMAIN a.nodes) \cap (DOMAIN b.nodes) = {}
  /\ (DOMAIN a.blocks) \cap (DOMAIN b.blocks) = {}

\* C9 as stated: for every reachable aerodrome and every two patches a and b,
\* apply_patch(a); apply_patch(b) gives the same aerodrome (profile, current
\* values, overlays, timers) as apply_patch(merge(a, b)).
C9_SequentialEqualsMerged ==
  \A a \in InboundPatches, b \in InboundPatches : Sequential(a, b) = Merged(a, b)

\* C9 amended: unless merging loses a's known profile or a resolvable block
\* value of a, both ways give the same profile and the same current values;
\* when moreover a and b share no node or block key they give the same
\* aerodrome, overlays and timers included.
C9_MergeAgreesOnConfirmed ==
  \A a \in InboundPatches, b \in InboundPatches :
    LET s == Sequential(a, b)
        m == Merged(a, b)
    IN /\ ~ProfileLost(a, b) /\ ~RouteLost(a, b)
            => /\ s.profile = m.profile
               /\ \A i \in NodeIx : s.nodes[i].current = m.nodes[i].current
               /\ \A i \in BlockIx : s.blocks[i].current = m.blocks[i].current
       /\ ~ProfileLost(a, b) /\ DisjointKeys(a, b) => s = m

\* C9 witness: an aerodrome with an overlay and a running timer on which two
\* patches with disjoint keys each change something, the first confirming an
\* overlay and the merged patch differing from both
C9_OverlayTimerAndTwoPatches ==
  /\ aero.node_timers # <<>>
  /\ \E i \in NodeIx : aero.nodes[i].pending # None
  /\ \E a \in InboundPatches, b \in InboundPatches :
       /\ DisjointKeys(a, b) /\ ~ProfileLost(a, b)
       /\ DOMAIN a.nodes # {} /\ DOMAIN b.blocks # {}
       /\ ApplyPatch(aero, a) # aero
       /\ Sequential(a, b) # ApplyPatch(aero, a)
       /\ Sequential(a, b) # ApplyPatch(aero, b)
       /\ \E i \in NodeIx :
            aero.nodes[i].pending # None /\ Sequential(a, b).nodes[i].pending = None

NonDecreasing(timers) ==
  \A j \in DOMAIN timers, k \in DOMAIN timers : j < k => timers[j][2] <= timers[k][2]

\* C8: a tick fires and removes every node and block timer that is due,
\* whatever the order of scheduling and the durations (here: no timer whose
\* deadline lies strictly before now is left by Aerodrome::tick).
C8_DueTimersFire ==
  LET a2 == AerodromeTick(aero, now)
  IN /\ \A k \in DOMAIN a2.node_timers : a2.node_timers[k][2] >= now
     /\ \A k \in DOMAIN a2.block_timers : a2.block_timers[k][2] >= now

\* C8, second half: the timer sequences are ordered by non-decreasing deadline
C8_TimersOrdered ==
  NonDecreasing(aero.node_timers) /\ NonDecreasing(aero.block_timers)

NoOverlay(a) ==
  /\ \A i \in NodeIx : a.nodes[i].pending = None
  /\ \A b \in BlockIx : a.blocks[b].pending = None

\* C10: after apply_preset(i), the flush of its patch P by tick() and the
\* receipt of P echoed back, every effective value is as just after
\* apply_preset(i) and no cell has a pending overlay.
C10_PresetRoundTrip ==
  scen.phase = "echoed" => EffectiveValues(aero) = scen.eff /\ NoOverlay(aero)

\* C10 restricted to presets applied while the outgoing patch was empty
C10_RoundTripAfterFlush ==
  scen.phase = "echoed" /\ scen.clean
    => EffectiveValues(aero) = scen.eff /\ NoOverlay(aero)

\* a preset round trip that completed
C10_RoundTripDone == scen.phase = "echoed" /\ scen.clean

\* nothing is in flight between the clients, the streams and the manager
Quiescent ==
  /\ serverq = <<>>
  /\ \A s \in Streams :
       /\ strm[s].up = <<>> /\ strm[s].bus = <<>> /\ strm[s].down = <<>>
       /\ ~strm[s].open => ~strm[s].tracked

TrackingStreams == {s \in Streams : strm[s].tracked}

\* C3: once every Track message has been processed, the manager's trackers
\* count equals the number of streams whose tracked set holds the icao (each
\* stream end and each Error{disconnect} costs one decrement per stream).
C3_TrackersMatchStreams ==
  Quiescent => mgr.trackers = Cardinality(TrackingStreams)

\* C3 in a build with debug assertions, where the forwarding task's
\* debug_assert!(tracked.remove(icao)) runs
C3_TrackersMatchStreamsDebug ==
  Quiescent /\ ~mgr.release => mgr.trackers = Cardinality(TrackingStreams)

C6_OverflowKeepsStream ==
  \A s \in Streams : strm[s].open => strm[s].fwd

\* the cell of client A's mutation, in an aerodrome record
EchoCell(a) == IF echo.kind = "node" THEN a.nodes[echo.cell] ELSE a.blocks[echo.cell]
EchoValue == IF echo.kind = "node" THEN FALSE ELSE Relax

EchoDone ==
  /\ EchoCell(aero).pending = None
  /\ EchoCell(aeroB) = Cell(EchoValue, None)

\* C2: once client A's tick has sent its mutation, the value eventually is
\* the confirmed value of client B with no overlay, and A's own overlay is
\* cleared, with and without an upstream socket.
C2_Echo == (echo.phase = "flushed") ~> EchoDone

\* C2 without an upstream server (local merge and broadcast)
C2_EchoLocal == (echo.phase = "flushed" /\ ~mgr.upstream) ~> EchoDone

\* C5: the manager cannot deadlock: patch() never waits for the socket mutex,
\* holding the data mutex, while the socket task holding the socket mutex
\* waits for the data mutex.
C5_NoDeadlock ==
  ~(/\ lk.spc = "sock" /\ lk.data = "serve"
    /\ lk.tpc = "data" /\ lk.sock = "sock")

\* C5, last part: no task holds the data mutex while waiting on network I/O
\* (the send of SharedStateUpdate) or on the socket mutex
C5_DataLockIsShort ==
  lk.data = "serve" => lk.spc \notin {"sock", "send"}

\* C11: set_node(i, v) changes the aerodrome only for an in-range node whose
\* condition in the active profile is Direct; then it sets pending to v,
\* records (id, v) in the outgoing patch, replaces the node's timers by one
\* timer n seconds ahead iff v is false and the reset is TimeSecs(n), and
\* touches no other cell or timer. Every cell has at most one timer.
C11_SetNodeDirectOnly ==
  /\ \A node \in 0 .. NNodes, v \in BOOLEAN :
       LET a2 == SetNode(aero, node, v, now)
           direct == node < NNodes /\ NodeCond(aero.profile, node).kind = "Direct"
       IN IF ~direct THEN a2 = aero
          ELSE LET r == NodeCond(aero.profile, node).reset
               IN /\ a2.nodes[node] = Cell(aero.nodes[node].current, Some(v))
                  /\ \A j \in NodeIx \ {node} : a2.nodes[j] = aero.nodes[j]
                  /\ a2.blocks = aero.blocks /\ a2.block_timers = aero.block_timers
                  /\ a2.profile = aero.profile
                  /\ a2.pending_patch =
                       [aero.pending_patch EXCEPT !.nodes = Insert(@, NodeId(node), v)]
                  /\ TimersOf(a2.node_timers, node) =
                       (IF ~v /\ r # ResetNone
                        THEN << <<node, now + Unwrap(r)>> >> ELSE <<>>)
                  /\ \A j \in NodeIx \ {node} :
                       TimersOf(a2.node_timers, j) = TimersOf(aero.node_timers, j)
  /\ \A i \in NodeIx : Len(TimersOf(aero.node_timers, i)) <= 1
  /\ \A b \in BlockIx : Len(TimersOf(aero.block_timers, b)) <= 1

\* C11 witness: a Direct node was set to false (overlay, outgoing entry and
\* its one timer are there) while a block timer is running beside it
C11_NodeSetWithTimer ==
  /\ NodeCond(aero.profile, 0).kind = "Direct"
  /\ aero.nodes[0].pending = Some(FALSE)
  /\ "n1" \in DOMAIN aero.pending_patch.nodes
  /\ Len(TimersOf(aero.node_timers, 0)) = 1
  /\ aero.block_timers # <<>>

\* two blocks share a node whose condition in profile p is Fixed{false}
SharesTransparent(p, x, y) ==
  \E i \in DOMAIN At(ConfigBlocks, x).nodes, j \in DOMAIN At(ConfigBlocks, y).nodes :
     /\ At(ConfigBlocks, x).nodes[i] = At(ConfigBlocks, y).nodes[j]
     /\ NodeCond(p, At(ConfigBlocks, x).nodes[i]) = Fixed(FALSE)

\* the least set of blocks holding S and closed under SharesTransparent
RECURSIVE BlockClosure(_, _)
BlockClosure(p, S) ==
  LET T == S \cup {y \in BlockIx : \E x \in S : SharesTransparent(p, x, y)}
  IN IF T = S THEN S ELSE BlockClosure(p, T)

\* the values set_block is called with: clicks, and the Clear of a timer
BlockStates == {Clear, Relax, Route(0, 1)}

\* C12: set_block(b, s) sets pending s on exactly the blocks of the
\* transitive closure of b under "shares a Fixed{false} node" and leaves all
\* other blocks, their timers and all nodes alone; an affected block has one
\* timer, of its own delay, iff s is not Clear and its reset is TimeSecs(n);
\* an out-of-range b changes nothing.
C12_SetBlockCascade ==
  \A b \in 0 .. NBlocks, s \in BlockStates :
    LET a2 == SetBlock(aero, b, s, now)
        C == IF b < NBlocks THEN BlockClosure(aero.profile, {b}) ELSE {}
    IN /\ a2.nodes = aero.nodes /\ a2.node_timers = aero.node_timers
       /\ a2.profile = aero.profile
       /\ a2.pending_patch.nodes = aero.pending_patch.nodes
       /\ a2.pending_patch.profile = aero.pending_patch.profile
       /\ \A x \in BlockIx :
            LET r == BlockReset(aero.profile, x)
            IN IF x \in C
               THEN /\ a2.blocks[x] = Cell(aero.blocks[x].current, Some(s))
                    /\ BlockId(x) \in DOMAIN a2.pending_patch.blocks
                    /\ a2.pending_patch.blocks[BlockId(x)] = BsConfToIpc(s)
                    /\ TimersOf(a2.block_timers, x) =
                         (IF s # Clear /\ r # ResetNone
                          THEN << <<x, now + Unwrap(r)>> >> ELSE <<>>)
               ELSE /\ a2.blocks[x] = aero.blocks[x]
                    /\ TimersOf(a2.block_timers, x) = TimersOf(aero.block_timers, x)
                    /\ BlockId(x) \in DOMAIN a2.pending_patch.blocks
                         <=> BlockId(x) \in DOMAIN aero.pending_patch.blocks

\* C12 witness: in profile p3 a set_block reached b3 from b1 only through b2
\* (b1 and b3 share just the Router n1): all three blocks are pending Relax,
\* with timers for b1 and b3 and none for b2, whose reset is None
C12_CascadedThroughTwoNodes ==
  /\ aero.profile = 2
  /\ \A x \in BlockIx : aero.blocks[x].pending = Some(Relax)
  /\ ~SharesTransparent(2, 0, 2)
  /\ Len(TimersOf(aero.block_timers, 0)) = 1
  /\ Len(TimersOf(aero.block_timers, 2)) = 1
  /\ TimersOf(aero.block_timers, 1) = <<>>

\* the blocks bordering both nodes
BlocksBetween(x, y) ==
  {b \in BlockIx :
     /\ \E k \in DOMAIN At(ConfigBlocks, b).nodes : At(ConfigBlocks, b).nodes[k] = x
     /\ \E k \in DOMAIN At(ConfigBlocks, b).nodes : At(ConfigBlocks, b).nodes[k] = y}

\* chains of profile p: Router - Fixed{false} nodes - Router, the nodes
\* distinct, each consecutive pair joined by one block
Chains(p) ==
  {c \in UNION {[1 .. n -> NodeIx] : n \in 2 .. NNodes} :
     /\ \A i, j \in DOMAIN c : i # j => c[i] # c[j]
     /\ NodeCond(p, c[1]) = Router /\ NodeCond(p, c[Len(c)]) = Router
     /\ \A i \in 2 .. (Len(c) - 1) : NodeCond(p, c[i]) = Fixed(FALSE)
     /\ \A i \in 1 .. (Len(c) - 1) : Cardinality(BlocksBetween(c[i], c[i + 1])) = 1}

\* chains that are the only way between their end nodes: no other chain joins
\* them and no node that is not Fixed{true} lies off the chain
OnlyChains(p) ==
  {c \in Chains(p) :
     /\ \A c2 \in Chains(p) : (c2[1] = c[1] /\ c2[Len(c2)] = c[Len(c)]) => c2 = c
     /\ \A n \in NodeIx :
          (\A i \in DOMAIN c : c[i] # n) => NodeCond(p, n) = Fixed(TRUE)}

\* the mutation of the k-th block of a chain, counted from the origin
ChainMutation(c, k) ==
  <<CHOOSE b \in BlocksBetween(c[k], c[k + 1]) : TRUE, Route(c[k], c[k + 1])>>

\* C13 as stated: for a chain, set_route sets each block to Route((n1, n2)),
\* n1 nearer the origin, and issues the mutations from the origin's block to
\* the destination's.
C13_RouteOriginFirst ==
  \A c \in OnlyChains(aero.profile) :
    RouteMutations(aero, c[1], c[Len(c)]) =
      [k \in 1 .. (Len(c) - 1) |-> ChainMutation(c, k)]

\* C13 amended: the same mutations, issued from the destination's block back
\* to the origin's; afterwards each block of the chain is pending its route.
C13_RouteDestinationFirst ==
  \A c \in OnlyChains(aero.profile) :
    LET n == Len(c) - 1
        a2 == SetRoute(aero, c[1], c[Len(c)], now)
    IN /\ RouteMutations(aero, c[1], c[Len(c)]) =
            [k \in 1 .. n |-> ChainMutation(c, n + 1 - k)]
       /\ \A k \in 1 .. n :
            a2.blocks[ChainMutation(c, k)[1]].pending = Some(ChainMutation(c, k)[2])

\* C13 witness: in profile p2 (n1 Router, n2 Fixed{false}, n3 Router, the
\* other way cut) set_route((n1, n3)) has acted: b1 and b2 are pending
\* their routes and b2, whose reset is TimeSecs, has its timer
C13_ChainRouted ==
  /\ aero.profile = 1
  /\ <<0, 1, 2>> \in OnlyChains(1)
  /\ aero.blocks[0].pending = Some(Route(0, 1))
  /\ aero.blocks[1].pending = Some(Route(1, 2))
  /\ Len(TimersOf(aero.block_timers, 1)) = 1

\* the (node, side) pairs that can be reached from a set of them by leaving
\* a node through the given side, not passing Fixed{true} nodes or dest
RECURSIVE ReachableKeys(_, _, _)
ReachableKeys(p, K, dest) ==
  LET Real(k) == \E x \in K : /\ NodeCond(p, x[1]) # Fixed(TRUE) /\ x[1] # dest
                              /\ \E i \in DOMAIN NodeConns(x[1], x[2]) :
                                   k = <<NodeConns(x[1], x[2])[i][1],
                                         ~NodeConns(x[1], x[2])[i][2]>>
      U == K \cup {k \in NodeIx \X BOOLEAN : Real(k)}
  IN IF U = K THEN K ELSE ReachableKeys(p, U, dest)

NoPath(p, orgn, dest) ==
  \A k \in ReachableKeys(p, {<<orgn, FALSE>>, <<orgn, TRUE>>}, dest) :
     k[1] # dest \/ NodeCond(p, k[1]) = Fixed(TRUE)

\* the found path holds a (node, side) that was reached again, the origin's
\* entry (the last of the list) apart
RevisitedOnPath(st) ==
  /\ st.list # None
  /\ \E k \in 1 .. (Len(Unwrap(st.list)) - 1) : Unwrap(st.list)[k] \in st.revisited

\* C14: set_route is all-or-nothing. If an end node is not a Router, no path
\* exists, the destination is popped a second time, or the found path holds
\* a node reached again, nothing changes; otherwise each window of the found
\* path names a block bordering its two nodes, that block is pending the
\* route, and every block off the path, every node and the profile are as
\* before.
C14_RouteAllOrNothing ==
  \A orgn \in NodeIx, dest \in NodeIx :
    LET p == aero.profile
        st == RouteFound(aero, orgn, dest)
        muts == RouteMutations(aero, orgn, dest)
        a2 == SetRoute(aero, orgn, dest, now)
        routers == NodeCond(p, orgn) = Router /\ NodeCond(p, dest) = Router
        S == {muts[k][1] : k \in DOMAIN muts}
    IN IF ~routers \/ NoPath(p, orgn, dest) \/ st.error \/ RevisitedOnPath(st)
       THEN a2 = aero
       ELSE LET list == Unwrap(st.list)
            IN /\ st.list # None /\ Len(muts) = Len(list) - 1
               /\ list[1][1] = dest /\ list[Len(list)][1] = orgn
               /\ \A k \in DOMAIN muts :
                    /\ muts[k][1] \in BlocksBetween(list[k][1], list[k + 1][1])
                    /\ muts[k][2] = Route(list[k + 1][1], list[k][1])
                    /\ a2.blocks[muts[k][1]] =
                         Cell(aero.blocks[muts[k][1]].current, Some(muts[k][2]))
                    /\ a2.pending_patch.blocks[BlockId(muts[k][1])] =
                         BsConfToIpc(muts[k][2])
               /\ \A x \in BlockIx \ S :
                    /\ a2.blocks[x] = aero.blocks[x]
                    /\ TimersOf(a2.block_timers, x) = TimersOf(aero.block_timers, x)
                    /\ BlockId(x) \in DOMAIN a2.pending_patch.blocks
                         <=> BlockId(x) \in DOMAIN aero.pending_patch.blocks
               /\ a2.nodes = aero.nodes /\ a2.node_timers = aero.node_timers
               /\ a2.profile = aero.profile
               /\ a2.pending_patch.nodes = aero.pending_patch.nodes

\* C14 witness: in profile p3, where the ring is open both ways, a
\* set_route between n1 and n3 has set b1 and b2 and left b3 alone
C14_RouteSetChainOnly ==
  /\ aero.profile = 2
  /\ aero.blocks[0].pending = Some(Route(0, 1))
  /\ aero.blocks[1].pending = Some(Route(1, 2))
  /\ aero.blocks[2] = Cell(Clear, None)
  /\ Len(TimersOf(aero.block_timers, 0)) = 1
  /\ ~NoPath(2, 0, 2)

\* no stream's bus gets a broadcast in this step
NoBroadcast == \A s \in Streams : Len(strm'[s].bus) <= Len(strm[s].bus)

\* C15: patch(P) with a socket sends P upstream as SharedStateUpdate and,
\* from its start to its return, the snapshot stays as it is and nothing is
\* broadcast; patch(P) without a socket merges P into the snapshot, sends
\* nothing upstream and puts exactly one Patch{P} on the bus; a stream's
\* forwarding task hands a broadcast to its client only if the stream tracks
\* the aerodrome.
C15_PatchUpstreamOrLocal ==
  [][/\ (lk.spc = "idle" /\ serverq # <<>> /\ serverq' = Tail(serverq))
          => /\ mgr.socket = 0
             /\ mgr' = [mgr EXCEPT !.state = PatchApplyPatch(@, Head(serverq).patch)]
             /\ net' = net
             /\ \A s \in Streams :
                  strm'[s].bus = Append(strm[s].bus, DownPatch(Head(serverq).patch))
     /\ (lk.spc = "idle" /\ lk'.spc # "idle")
          => mgr.socket # 0 /\ mgr' = mgr /\ net' = net /\ NoBroadcast
     /\ (lk.spc # "idle")
          => mgr' = mgr /\ NoBroadcast
     /\ (lk.spc # "idle" /\ lk'.spc = "idle")
          => /\ mgr.socket # 0
             /\ net'.out = Append(net.out, Head(serverq).patch)
             /\ serverq' = Tail(serverq)
     /\ net'.out # net.out /\ Len(net'.out) > Len(net.out)
          => lk.spc = "send"
     /\ \A s \in Streams :
          Len(strm'[s].down) > Len(strm[s].down) => strm[s].tracked
    ]_vars

\* C15 witness: without a socket a patch of client A was merged into the
\* snapshot and broadcast; stream 1 handed it to its client, stream 2, which
\* does not track the aerodrome, took it from the bus and dropped it
C15_LocalPatchDelivered ==
  /\ mgr.socket = 0 /\ mgr.state # PatchDefault
  /\ \E k \in DOMAIN strm[1].down : strm[1].down[k] = DownPatch(mgr.state)
  /\ ~strm[2].tracked /\ strm[2].bus = <<>> /\ strm[2].down = <<>>

\* a step in which Error{disconnect=true} is put on some stream's bus
ErrorBroadcast ==
  \E s \in Streams :
    /\ strm'[s].bus # <<>>
    /\ \/ Len(strm'[s].bus) > Len(strm[s].bus)
       \/ strm'[s].lagged /\ ~strm[s].lagged
    /\ strm'[s].bus[Len(strm'[s].bus)] = DownError(TRUE)

\* C16: the socket task of every socket the manager opened ends once, with
\* one call of disconnect_forced: if the manager still holds that socket the
\* call broadcasts Error{disconnect=true} once and leaves the manager without
\* a socket; if the manager has detached it (graceful disconnect) or holds
\* another socket, nothing is broadcast and the manager's socket stays. The
\* only other Error broadcast is that of a connect() that failed, and a
\* socket whose task has ended is never opened again.
C16_ForcedCloseOnce ==
  [][/\ \A id \in mgr.tasks \ mgr'.tasks :
          /\ mgr.tasks \ mgr'.tasks = {id}
          /\ IF mgr.socket = id
             THEN /\ mgr'.socket = 0
                  /\ strm' = Broadcast(strm, <<DownError(TRUE)>>)
             ELSE /\ mgr'.socket = mgr.socket
                  /\ strm' = strm
     /\ \A id \in mgr'.tasks \ mgr.tasks :
          id = mgr.opened + 1 /\ mgr'.opened = id /\ mgr'.socket = id
     /\ ErrorBroadcast =>
          \/ mgr.socket # 0 /\ mgr.tasks \ mgr'.tasks = {mgr.socket}
          \/ /\ mgr.socket = 0 /\ mgr'.socket = 0 /\ mgr'.tasks = mgr.tasks
             /\ last'.called /\ last'.attempted
    ]_vars

\* C16 witness: socket 1 was detached by a graceful disconnect, socket 2 was
\* opened, and then the task of socket 1 ended: the manager still holds
\* socket 2 and the tracking stream has been sent no Error
C16_RedundantCloseIgnored ==
  /\ mgr.opened = 2 /\ mgr.socket = 2 /\ mgr.tasks = {2}
  /\ \E s \in Streams :
       /\ strm[s].tracked /\ strm[s].fwd
       /\ \A k \in DOMAIN strm[s].bus : strm[s].bus[k].kind # "Error"
       /\ \A k \in DOMAIN strm[s].down : strm[s].down[k].kind # "Error"

\* the call Worker::serve has just finished is a track(false) that brought
\* the tracker count from above 0 to 0
TrackersReachedZero ==
  /\ last.called /\ last.fresh /\ ~last.track
  /\ last.before > 0 /\ last.after = 0 /\ mgr.trackers = 0

\* C17: when the tracker count of the aerodrome reaches 0 the manager's
\* controlling flag is false.
C17_ControlResetAtZero == TrackersReachedZero => ~mgr.controlling

\* C18: when a Track{false} brings the tracker count to 0 the manager's
\* snapshot is the empty patch again.
C18_StateDroppedAtZero == TrackersReachedZero => mgr.state = PatchDefault

\* the client of stream s as it is when tick() comes to the k-th message
\* waiting on its channel
ClientBefore(s, k) ==
  ClientDrain(ClientOf(strm[s], CliAero(s)), SubSeq(strm[s].down, 1, k - 1))

\* the confirmed state of Aerodrome a has the value of every key of patch
ConfirmedHolds(a, patch) ==
  /\ \A id \in DOMAIN patch.nodes :
       /\ NodeIds(id) # None
       /\ a.nodes[Unwrap(NodeIds(id))].current = patch.nodes[id]
  /\ \A id \in DOMAIN patch.blocks :
       /\ BlockIds(id) # None
       /\ BsIpcToConf(patch.blocks[id]) # None
       /\ a.blocks[Unwrap(BlockIds(id))].current = Unwrap(BsIpcToConf(patch.blocks[id]))
  /\ patch.profile # None =>
       ProfilePosition(Unwrap(patch.profile)) = Some(a.profile)

\* what a step appends to the bus of stream s
BusGain(s) ==
  IF Len(strm'[s].bus) > Len(strm[s].bus)
  THEN SubSeq(strm'[s].bus, Len(strm[s].bus) + 1, Len(strm'[s].bus))
  ELSE <<>>

\* whatever waits on the client's channel, tick() applies a Control or a
\* Patch only to an aerodrome it has, has the aerodrome after a Config, and
\* has the values of a Patch it applies
C19_ClientSide ==
  \A s \in Streams :
    /\ strm[s].first \in {"none", "Init"}
    /\ strm[s].open => strm[s].first = "Init"
    /\ \A k \in DOMAIN strm[s].down :
         LET m == strm[s].down[k]
             c == ClientBefore(s, k)
             c2 == ClientRecv(c, m)
         IN /\ m.kind = "Config" => c2.has
            /\ (m.kind \in {"Control", "Patch"} /\ ~c.has) => c2 = c
            /\ (m.kind = "Patch" /\ c.has) => ConfirmedHolds(c2.aero, m.patch)
            /\ (/\ m.kind = "Config" /\ k + 2 <= Len(strm[s].down)
                /\ strm[s].down[k + 1].kind = "Control"
                /\ strm[s].down[k + 2].kind = "Patch")
                 => LET c3 == ClientBefore(s, k + 3)
                    IN /\ c3.has
                       /\ c3.act = IF strm[s].down[k + 1].flag
                                   THEN "Controlling" ELSE "Observing"
                       /\ ConfirmedHolds(c3.aero, strm[s].down[k + 2].patch)

\* a synchronisation puts Config, Control{controlling}, Patch{snapshot} on
\* the bus, in that order and in one piece; track(true) and the end of the
\* configuration load synchronise when the configuration is there; the
\* client gets an aerodrome only from a Config
C19_ManagerSide ==
  \A s \in Streams :
    /\ (\E k \in DOMAIN BusGain(s) : BusGain(s)[k].kind = "Config")
         => BusGain(s) = <<DownConfig, DownControl(mgr'.controlling),
                           DownPatch(mgr'.state)>>
    /\ (/\ strm[s].fwd /\ mgr'.config
        /\ \/ ~mgr.config
           \/ serverq # <<>> /\ serverq' = Tail(serverq)
                /\ Head(serverq).kind = "Track" /\ Head(serverq).flag)
         => BusGain(s) = <<DownConfig, DownControl(mgr'.controlling),
                           DownPatch(mgr'.state)>>
    /\ (~strm[s].has /\ strm'[s].has)
         => \E k \in DOMAIN strm[s].down : strm[s].down[k].kind = "Config"

ErrorsOf(msgs) == SelectSeq(msgs, LAMBDA m : m.kind = "Error")
ErrorText(m) == IF m.message = None THEN "error" ELSE Unwrap(m.message)

RECURSIVE CountTrackFalse(_)
CountTrackFalse(msgs) ==
  IF msgs = <<>> THEN 0
  ELSE (IF Head(msgs) = UpTrack(FALSE) THEN 1 ELSE 0) + CountTrackFalse(Tail(msgs))

C21_ErrorPoisons ==
  (strm[1].down = <<>> /\ CountTrackFalse(strm[1].up) > 0 /\ ~strm[1].has)
    => ctx.state = "Poisoned"

\* C22: whenever everything sent has arrived, recv() on the in-process
\* channel and recv() on the TCP channel give the client the same outcome
\* (the same message, no message pending, or an error).
C22_SameOutcome == chan.synced => chan.outM = chan.outT

\* C23: after a frame with an unknown payload kind the stream's reading
\* task still runs and what the stream tracked is still tracked.
C23_UnknownSkipped ==
  (chan.unknown /\ chan.ubytes = <<>>)
    => chan.reader /\ \A k \in DOMAIN chan.served : chan.served[k] # UpTrack(FALSE)


\* the deep merge as the specification words it: between two objects every
\* key of the source is merged into the same key of the target, or inserted,
\* and the other keys of the target stay; otherwise the source replaces
RECURSIVE DeepMerge(_, _)
DeepMerge(target, source) ==
  IF IsObject(target) /\ IsObject(source)
  THEN JObj([k \in (DOMAIN target.m) \cup (DOMAIN source.m) |->
              IF k \notin DOMAIN source.m THEN target.m[k]
              ELSE IF k \in DOMAIN target.m
                THEN DeepMerge(target.m[k], source.m[k])
              ELSE source.m[k]])
  ELSE source

\* C28: for every state value and every patch, merge_state gives the
\* deep merge of the two, and merging the same patch a second time changes
\* nothing; {a:{x:1}} merged with {a:{y:2}} is {a:{x:1,y:2}}, and that
\* merged with {a:5} is {a:5}.
C28_MergeIsDeepMerge ==
  /\ \A p \in JsonValues :
       LET once == merge_state(srv.aero, p)
       IN /\ once.state = DeepMerge(srv.aero.state, p)
          /\ merge_state(once, p) = once
          /\ once.controllers = srv.aero.controllers
          /\ once.objects = srv.aero.objects
  /\ LET ax == JObj([k \in {"a"} |-> JObj([j \in {"x"} |-> JNum(1)])])
         ay == JObj([k \in {"a"} |-> JObj([j \in {"y"} |-> JNum(2)])])
         axy == JObj([k \in {"a"} |->
                       JObj([j \in {"x", "y"} |->
                              IF j = "x" THEN JNum(1) ELSE JNum(2)])])
         a5 == JObj([k \in {"a"} |-> JNum(5)])
     IN /\ merge(ax, ay) = axy
        /\ merge(axy, a5) = a5

\* C28 witness: merge_state has run and the state is an object whose key a
\* holds an object with both inner keys beside a key b
C28_MergedDeep ==
  /\ srv.acted
  /\ IsObject(srv.aero.state)
  /\ DOMAIN srv.aero.state.m = {"a", "b"}
  /\ IsObject(srv.aero.state.m["a"])
  /\ DOMAIN srv.aero.state.m["a"].m = {"x", "y"}
  /\ srv.aero.state.m["a"].m["x"] = JNum(1)
  /\ srv.aero.state.m["a"].m["y"] = JNull


\* C25: a StateUpdate or SharedStateUpdate taken from an open observer
\* session leaves the aerodrome and the bus as they are, appends
\* Error{"invalid message"} to what that session is sent, changes no other
\* session and leaves the session open.
C25_ObserverRejected ==
  \A s \in Sessions :
    (srv.sess[s].phase = "open" /\ ~IsController(srv, s)) =>
      \A m \in Mutations \cup {UpStateUpdate("o1", FALSE)} :
        LET v2 == HandleText(srv, s, m)
        IN /\ v2.aero = srv.aero
           /\ v2.log = srv.log
           /\ v2.sess[s] = [srv.sess[s] EXCEPT
                              !.out = Append(@, DnToolError("invalid message"))]
           /\ v2.sess[s].phase = "open"
           /\ \A o \in Sessions \ {s} : v2.sess[o] = srv.sess[o]

\* C25 witness: the observer has been answered "invalid message", is still
\* open, and the controller beside it is open and was sent no Error
C25_ObserverAnswered ==
  /\ ~IsController(srv, 2)
  /\ srv.sess[2].phase = "open" /\ srv.sess[1].phase = "open"
  /\ \E k \in DOMAIN srv.sess[2].out :
       srv.sess[2].out[k] = DnToolError("invalid message")
  /\ \A k \in DOMAIN srv.sess[1].out : srv.sess[1].out[k].kind # "Error"
  /\ srv.log = <<DnControllerConnect(1)>>

\* C26: with no controller registered the objects are empty and the state
\* is null; a controller is registered from its upgrade until the cleanup of
\* its session, however the session ended; the cleanup removes its id,
\* clears objects and state exactly if no controller is left, and
\* broadcasts ControllerDisconnect for it.
C26_LastControllerClears ==
  /\ srv.aero.controllers = {} =>
       srv.aero.objects = EmptyMap /\ srv.aero.state = JNull
  /\ \A s \in Sessions :
       /\ s \in srv.aero.controllers <=>
            /\ IsController(srv, s)
            /\ srv.sess[s].phase \in {"upgraded", "subscribed", "open", "ended"}
       /\ (IsController(srv, s) /\ srv.sess[s].phase = "done") =>
            \E k \in DOMAIN srv.log : srv.log[k] = DnControllerDisconnect(s)
       /\ (IsController(srv, s) /\ srv.sess[s].phase = "ended") =>
            LET v2 == SessionCleanup(srv, s)
            IN /\ v2.aero.controllers = srv.aero.controllers \ {s}
               /\ IF srv.aero.controllers = {s}
                  THEN v2.aero.objects = EmptyMap /\ v2.aero.state = JNull
                  ELSE /\ v2.aero.objects = srv.aero.objects
                       /\ v2.aero.state = srv.aero.state
               /\ v2.log = Append(srv.log, DnControllerDisconnect(s))

\* C26 witness: two controllers had set an object and the shared state, the
\* first has gone and left both in place, then the second has gone
C26_BothControllersGone ==
  /\ IsController(srv, 2)
  /\ srv.sess[1].phase = "done" /\ srv.sess[2].phase = "done"
  /\ srv.aero = AerodromeDefault
  /\ \E i, j, k, l \in DOMAIN srv.log :
       /\ i < k /\ j < k /\ k < l
       /\ srv.log[i].kind = "StateUpdate"
       /\ srv.log[j].kind = "SharedStateUpdate"
       /\ srv.log[k] = DnControllerDisconnect(1)
       /\ srv.log[l] = DnControllerDisconnect(2)


\* what a client holds after applying, in the order sent, the InitialState
\* snapshot and the SharedStateUpdates it was sent
RECURSIVE Replay(_, _)
Replay(j, msgs) ==
  IF msgs = <<>> THEN j
  ELSE LET m == Head(msgs)
       IN Replay(IF m.kind = "InitialState" THEN m.json
                 ELSE IF m.kind = "SharedStateUpdate" THEN merge(j, m.json)
                 ELSE j,
                 Tail(msgs))

Broadcasts(msgs) ==
  SelectSeq(msgs, LAMBDA m : m.kind \in {"ControllerConnect", "ControllerDisconnect",
                                         "StateUpdate", "SharedStateUpdate"})

\* the broadcasts an open session was sent are the bus's messages in bus order
\* without a gap, up to the one it takes next
C27_SentInMergeOrder ==
  \A s \in Sessions :
    srv.sess[s].phase = "open" =>
      LET bc == Broadcasts(srv.sess[s].out)
          n == srv.sess[s].next
      IN bc = SubSeq(srv.log, n - Len(bc), n - 1)

\* an open session that has been sent every broadcast holds the server's state
C27_SessionHoldsServerState ==
  \A s \in Sessions :
    (srv.sess[s].phase = "open" /\ srv.sess[s].next = Len(srv.log) + 1) =>
      Replay(JNull, srv.sess[s].out) = srv.aero.state

\* C27: every open session is sent the broadcasts of the merges in merge
\* order, none left out, and a session that has applied its InitialState and
\* every broadcast holds the state the server holds.
C27_MergeOrderConverges == C27_SentInMergeOrder /\ C27_SessionHoldsServerState


\* the blocks of the configuration that have the node on their boundary
Bordering(node) ==
  {b \in BlockIx : \E k \in DOMAIN At(ConfigBlocks, b).nodes :
                     At(ConfigBlocks, b).nodes[k] = node}

Permits(state, node) ==
  \/ state = Clear
  \/ state[1] = "Route" /\ state[2] # node /\ state[3] # node

C30_AdjacentRestricts ==
  \A e \in EdgeIx :
    LET c == EdgeCond(aero.profile, e)
        state == Effective(aero.blocks[c.block])
        cands == Elems(route_candidates(aero, c.block))
    IN (c.kind = "Router" /\ state[1] = "Route"
          /\ Len(route_candidates(aero, c.block)) > 1) =>
         \A slot \in 1 .. 2 :
           LET parent == state[slot + 1]
               mine == {r[slot] : r \in cands}
               next == Effective(aero.blocks[Adjacent(c.block, parent)])
           IN /\ next = Relax => ~edge_state(aero, e)
              /\ next = Clear =>
                   Restricted(aero, c.block, parent, slot, mine) = mine


\* C31: a deferred-reset timer of a cell is gone (a) after an inbound patch
\* that carries for the cell a value other than its pending overlay, (b) after
\* an inbound patch naming a known profile and after a local set_profile, which
\* leave no timer at all, and (c) after a local mutation of the same cell,
\* which leaves exactly the timer that mutation schedules, if it schedules one.
C31_TimersCancelled ==
  /\ \A p \in InboundPatches :
       LET a2 == ApplyPatch(aero, p)
       IN /\ KnownProfile(p) => a2.node_timers = <<>> /\ a2.block_timers = <<>>
          /\ \A id \in CarriedNodes(p) :
               LET i == Unwrap(NodeIds(id))
               IN aero.nodes[i].pending # Some(p.nodes[id])
                    => TimersOf(a2.node_timers, i) = <<>>
          /\ \A id \in CarriedBlocks(p) :
               LET i == Unwrap(BlockIds(id))
               IN aero.blocks[i].pending # BsIpcToConf(p.blocks[id])
                    => TimersOf(a2.block_timers, i) = <<>>
  /\ \A i \in 0 .. (NProfiles - 1) :
       LET a2 == SetProfile(aero, i)
       IN a2.node_timers = <<>> /\ a2.block_timers = <<>>
  /\ \A node \in NodeIx, state \in BOOLEAN :
       LET a2 == SetNode(aero, node, state, now)
           c == NodeCond(aero.profile, node)
       IN c.kind = "Direct" =>
            TimersOf(a2.node_timers, node) =
              IF ~state /\ c.reset # ResetNone
              THEN << <<node, now + Unwrap(c.reset)>> >>
              ELSE <<>>
  /\ \A block \in BlockIx, state \in BlockStates :
       LET a2 == SetBlock(aero, block, state, now)
           r == BlockReset(aero.profile, block)
       IN /\ TimersOf(a2.block_timers, block) =
               IF state # Clear /\ r # ResetNone
               THEN << <<block, now + Unwrap(r)>> >>
               ELSE <<>>
          /\ \A b \in BlockIx : Len(TimersOf(a2.block_timers, b)) <= 1

\* C31 witness: node n1 was switched off locally, which scheduled its reset,
\* and the last tick drained a patch carrying n1 = true: the overlay is still
\* false and no timer is left
C31_TimerCancelledByPatch ==
  /\ hist # <<>>
  /\ \E k \in DOMAIN hist :
       LET m == hist[k].patch.nodes
       IN "n1" \in DOMAIN m /\ m["n1"]
  /\ aero.profile = 0
  /\ aero.nodes[0] = Cell(TRUE, Some(FALSE))
  /\ \A i \in NodeIx \ {0} : aero.nodes[i].pending = None
  /\ \A b \in BlockIx : aero.blocks[b].pending = None
  /\ aero.node_timers = <<>>


\* ------------------------------------------- a client with timers running
MaxFireSteps == 3

\* the profiles the timer runs start from: p1, and p3 with its cascade
FireProfiles == {0, 2}

\* the aerodrome after set_profile and two clicks at time 0: a node switched
\* off and a block set to Relax
InitFire ==
  /\ ToolIdle /\ EchoIdle /\ WorkerInit(FALSE, FALSE)
  /\ now = 0 /\ inbox = <<>> /\ sent = <<>> /\ hist = <<>>
  /\ scen = ScenIdle /\ steps = 0
  /\ \E p \in FireProfiles, node \in NodeIx, block \in BlockIx :
       aero = SetBlock(SetNode(SetProfile(AerodromeNew, p), node, FALSE, 0),
                       block, Relax, 0)

FireTick == steps < MaxFireSteps /\ ChanTick
FireForeign(p) == steps < MaxFireSteps /\ DeliverForeign(p)

FireNext ==
  /\ UNCHANGED toolVars
  /\ UNCHANGED workerVars
  /\ UNCHANGED echoVars
  /\ \/ FireTick
     \/ DeliverEcho
     \/ \E p \in ForeignPatches : FireForeign(p)
     \/ ChanAdvanceTime

SpecFire == InitFire /\ [][FireNext]_vars

\* the cells whose timer is in the sequence before and in no sequence after
Gone(before, after, cells) ==
  {c \in cells : TimersOf(before, c) # <<>> /\ TimersOf(after, c) = <<>>}

\* C32: in a Client::tick() the inbound messages are applied first, then the
\* timers run, then the outgoing patch is taken.  A node timer that fires
\* leaves the node pending true, a block timer leaves the block and the blocks
\* of its cascade pending Clear; the fired timer is gone, no timer is added,
\* and the mutation is in the patch this tick sends.  A timer the inbound
\* messages cancelled does not fire.
C32_TimerFires ==
  \A t \in now .. (MaxTime + 1) :
    LET a1 == ApplyInbox(aero, inbox, 1)
        r == TickResult(aero, inbox, t)
        firedN == Gone(a1.node_timers, r.aero.node_timers, NodeIx)
        firedB == Gone(a1.block_timers, r.aero.block_timers, BlockIx)
    IN /\ a1.node_timers # <<>> /\ Head(a1.node_timers)[2] < t
            => Head(a1.node_timers)[1] \in firedN
       /\ a1.block_timers # <<>> /\ Head(a1.block_timers)[2] < t
            => Head(a1.block_timers)[1] \in firedB
       /\ \A n \in firedN :
            /\ r.aero.nodes[n] = Cell(a1.nodes[n].current, Some(TRUE))
            /\ NodeId(n) \in DOMAIN r.out.nodes
            /\ r.out.nodes[NodeId(n)] = TRUE
       /\ \A b \in firedB : \A c \in BlockClosure(a1.profile, {b}) :
            /\ r.aero.blocks[c] = Cell(a1.blocks[c].current, Some(Clear))
            /\ BlockId(c) \in DOMAIN r.out.blocks
            /\ r.out.blocks[BlockId(c)] = Clear
       /\ Elems(r.aero.node_timers) \subseteq Elems(a1.node_timers)
       /\ Elems(r.aero.block_timers) \subseteq Elems(a1.block_timers)
       /\ \A n \in Gone(aero.node_timers, a1.node_timers, NodeIx) :
            /\ r.aero.nodes[n] = a1.nodes[n]
            /\ NodeId(n) \in DOMAIN r.out.nodes
                 => /\ NodeId(n) \in DOMAIN aero.pending_patch.nodes
                    /\ r.out.nodes[NodeId(n)] = aero.pending_patch.nodes[NodeId(n)]
       /\ r.aero.pending_patch = PatchDefault

\* C32 witness: n2 was switched off at time 0 and the patch flushed; two
\* seconds later a tick with nothing else to do fired its timer and sent
\* n2 = true
C32_ResetSent ==
  /\ steps = 2 /\ now = 2 /\ hist = <<>>
  /\ Len(sent) = 2
  /\ sent[1].patch.nodes["n2"] = FALSE
  /\ sent[2].patch.nodes = [k \in {"n2"} |-> TRUE]
  /\ aero.nodes[1].pending = Some(TRUE)
  /\ aero.node_timers = <<>>


\* every order of the entries of a list
Orders(entries) ==
  LET n == Len(entries)
      bij == {f \in [1 .. n -> 1 .. n] : \A j, k \in 1 .. n : f[j] = f[k] => j = k}
  IN {[k \in 1 .. n |-> entries[f[k]]] : f \in bij}

\* node lists of presets: those of the configuration and one with two named
\* nodes and the sentinel, each in every order
PresetNodeLists ==
  UNION {Orders(l) :
           l \in {At(ConfigProfiles, p).presets[k].nodes :
                    p \in {q \in Indices(ConfigProfiles) :
                             At(ConfigProfiles, q).presets # <<>>},
                    k \in {1}}
                 \cup {<< <<0, FALSE>>, <<2, FALSE>>, <<SentinelKey, TRUE>> >>}}

PresetBlockLists ==
  UNION {Orders(l) :
           l \in {At(ConfigProfiles, p).presets[k].blocks :
                    p \in {q \in Indices(ConfigProfiles) :
                             At(ConfigProfiles, q).presets # <<>>},
                    k \in {1}}
                 \cup {<< <<1, Route(0, 1)>>, <<SentinelKey, Relax>> >>}}

\* what a preset list assigns: the named cells their value, and with a
\* sentinel entry every other cell of cells the sentinel's value
Assigned(entries, cells) ==
  LET named == {entries[k][1] : k \in DOMAIN entries} \ {SentinelKey}
      ValueOf(c) ==
        LET k == CHOOSE j \in DOMAIN entries :
                   entries[j][1] = (IF c \in named THEN c ELSE SentinelKey)
        IN entries[k][2]
      dom == IF \E k \in DOMAIN entries : IsSentinel(entries[k][1])
             THEN cells ELSE named
  IN [c \in dom |-> ValueOf(c)]

\* C33: apply_preset(i) with a valid index leaves every cell the preset names
\* pending the preset's value and, if the preset has the sentinel key for the
\* kind, every other cell of the kind pending the sentinel's value, wherever
\* the sentinel stands in the list; confirmed values and the other overlays
\* stay; the outgoing patch's nodes and blocks are exactly these assignments;
\* no timer is left.  An out-of-range index changes nothing.
C33_PresetAssigns ==
  /\ \A l \in PresetNodeLists :
       LET r == PresetNodes(aero, EmptyMap, l, 1)
           want == Assigned(l, NodeIx)
       IN /\ \A n \in NodeIx :
               r.a.nodes[n] =
                 IF n \in DOMAIN want
                 THEN Cell(aero.nodes[n].current, Some(want[n]))
                 ELSE aero.nodes[n]
          /\ r.acc = [id \in {NodeId(n) : n \in DOMAIN want} |->
                        want[Unwrap(NodeIds(id))]]
  /\ \A l \in PresetBlockLists :
       LET r == PresetBlocks(aero, EmptyMap, l, 1)
           want == Assigned(l, BlockIx)
       IN /\ \A b \in BlockIx :
               r.a.blocks[b] =
                 IF b \in DOMAIN want
                 THEN Cell(aero.blocks[b].current, Some(want[b]))
                 ELSE aero.blocks[b]
          /\ r.acc = [id \in {BlockId(b) : b \in DOMAIN want} |->
                        BsConfToIpc(want[Unwrap(BlockIds(id))])]
  /\ \A i \in 0 .. (PresetCount(aero) + 1) :
       LET a2 == ApplyPreset(aero, i)
       IN IF i >= PresetCount(aero) THEN a2 = aero
          ELSE LET preset == At(At(ConfigProfiles, aero.profile).presets, i)
                   rn == PresetNodes(aero, EmptyMap, preset.nodes, 1)
                   rb == PresetBlocks(aero, EmptyMap, preset.blocks, 1)
               IN /\ a2.nodes = rn.a.nodes
                  /\ a2.blocks = rb.a.blocks
                  /\ a2.pending_patch.nodes = rn.acc
                  /\ a2.pending_patch.blocks = rb.acc
                  /\ a2.pending_patch.profile = aero.pending_patch.profile
                  /\ a2.profile = aero.profile
                  /\ a2.node_timers = <<>> /\ a2.block_timers = <<>>

\* C33 witness: after a click that scheduled a timer, preset 0 of p1 was
\* applied: n1 is pending false, every other node pending true by the
\* sentinel, every block pending Relax, and no timer is left
C33_PresetApplied ==
  /\ aero.profile = 0
  /\ aero.nodes[0].pending = Some(FALSE)
  /\ \A n \in NodeIx \ {0} : aero.nodes[n].pending = Some(TRUE)
  /\ \A b \in BlockIx : aero.blocks[b].pending = Some(Relax)
  /\ aero.pending_patch.nodes = [id \in {"n1", "n2", "n3", "n4"} |-> id # "n1"]
  /\ aero.node_timers = <<>> /\ aero.block_timers = <<>>
  /\ steps = 2


\* the patches the client has sent that the model still holds: in flight,
\* waiting in the channel as echoes, or drained by the last tick
SentPatches ==
  {m.patch : m \in {x \in Elems(sent) \cup Elems(inbox) \cup Elems(hist) :
                      x.src = "echo"}}

\* the patch carries the value for the cell id
Carries(m, id, v) == id \in DOMAIN m /\ m[id] = v

\* C34: every cell with a pending overlay Some(v) has (id, v) in the outgoing
\* patch not yet flushed or in a patch already sent, whatever local operations
\* ran between two ticks.
C34_NoMutationLost ==
  /\ \A n \in NodeIx :
       aero.nodes[n].pending # None =>
         LET v == Unwrap(aero.nodes[n].pending)
         IN \/ Carries(aero.pending_patch.nodes, NodeId(n), v)
            \/ \E p \in SentPatches : Carries(p.nodes, NodeId(n), v)
  /\ \A b \in BlockIx :
       aero.blocks[b].pending # None =>
         LET v == BsConfToIpc(Unwrap(aero.blocks[b].pending))
         IN \/ Carries(aero.pending_patch.blocks, BlockId(b), v)
            \/ \E p \in SentPatches : Carries(p.blocks, BlockId(b), v)


\* ------------------------- one client that keeps tracking, with time passing
\* as SpecSync, but the client never calls set_tracking again and the clock
\* runs, so that the client's timers come due
ResetAdvanceTime ==
  /\ now < MaxTime
  /\ now' = now + 1
  /\ UNCHANGED <<mgr, strm, serverq, last, steps, aero, aeroB>>

ResetNext ==
  /\ UNCHANGED toolVars
  /\ UNCHANGED <<inbox, sent, hist, scen, lk, net, echo>>
  /\ \/ ResetAdvanceTime
     \/ UNCHANGED now /\
          (\/ \E s \in Streams : SyncCliControl(s, TRUE)
           \/ \E s \in Streams : SyncCliSetNode(s, FALSE)
           \/ \E s \in Streams : SyncCliTick(s)
           \/ \E s \in Streams : SyncStreamRead(s)
           \/ \E s \in Streams : SyncStreamForward(s)
           \/ SyncServe
           \/ ConfigLoaded)

SpecReset == InitSync /\ [][ResetNext]_vars

\* C35: a Direct node with reset TimeSecs(n) that was switched off here, and
\* that nobody sets to another value while the profile stays, is switched on
\* again by a tick after the deadline, also when inbound patches repeat its
\* value false.  The reset is the work of the node's timer alone, so as long
\* as the node is off its timer has to be scheduled (here: the only client of
\* the aerodrome, which tracks it throughout and clicks node n1 off).
C35_ResetStaysScheduled ==
  (strm[1].has /\ aero.profile = 0 /\ ~Effective(aero.nodes[0]))
    => TimersOf(aero.node_timers, 0) # <<>>


\* C36: with an upstream server configured, a stream whose Track{true} has
\* been processed is served by an open upstream socket or is sent
\* Error{disconnect = true}.  Once everything sent has been processed (an
\* Error sent to a stream has made its client stop tracking), every stream
\* that still tracks, and whose forwarding task runs, has the manager's socket
\* open (here: after the first connection had succeeded).
C36_TrackerServed ==
  (mgr.upstream /\ mgr.opened > 0 /\ Quiescent) =>
    \A s \in Streams : (strm[s].tracked /\ strm[s].fwd) => mgr.socket # 0


\* C37: after the client has sent Track{icao, false} it holds no Aerodrome
\* record for the icao until it sends Track{icao, true} again, whatever the
\* server side had already forwarded to its channel (here: everything the
\* client sent has been read by its stream, whose tracked set then tells the
\* last Track sent).
C37_NoRecordAfterUntrack ==
  \A s \in Streams :
    (strm[s].open /\ strm[s].up = <<>> /\ ~strm[s].tracked) => ~strm[s].has


\* ------------------------------- the Context: connecting and tracked screens
MaxCtxSteps == 4
MaxScreens == 2

\* the aerodromes the screens of the model ask for
TrackIcaos == {"EGLL", "EGKK"}

\* ipc::Downstream as far as the client's set of aerodromes goes
CtxConfig(icao) == <<"Config", icao>>
CtxError(icao) == <<"Error", icao>>

\* Context::try_new, with the client's side of a connection: sent[icao] is
\* the last Upstream::Track the client sent for the icao, aerodromes the keys
\* of Client::aerodromes, down the messages waiting on the client's channel
ContextNew ==
  [state |-> "Disconnected", server |-> FALSE, client |-> FALSE,
   messages |-> <<>>, tracked |-> <<>>,
   sent |-> [i \in TrackIcaos |-> "none"], aerodromes |-> {}, down |-> <<>>]

\* Context::add_message
add_message(c, message) == [c EXCEPT !.messages = Append(@, message)]

\* Context::disconnect: the server is stopped, the client dropped
disconnect(c) ==
  [c EXCEPT !.state = "Disconnected", !.server = FALSE, !.client = FALSE,
            !.sent = [i \in TrackIcaos |-> "none"], !.aerodromes = {},
            !.down = <<>>]

\* Client::set_tracking
set_tracking(c, icao, track) ==
  [c EXCEPT !.aerodromes = IF track THEN @ ELSE @ \ {icao},
            !.sent[icao] = IF track THEN "true" ELSE "false"]

\* Context::create_server; mapping: ConfigMapping::load succeeds, started:
\* Server::new succeeds
create_server(c, mapping, started) ==
  IF ~mapping
  THEN [c |-> add_message(c, "failed to load config mapping"), channel |-> FALSE]
  ELSE IF started
  THEN [c |-> [c EXCEPT !.server = TRUE], channel |-> TRUE]
  ELSE [c |-> add_message(c, "failed to connect"), channel |-> FALSE]

RECURSIVE TrackAll(_, _)
TrackAll(c, icaos) ==
  IF icaos = <<>> THEN c
  ELSE TrackAll(set_tracking(c, Head(icaos), TRUE), Tail(icaos))

\* a create_client that leaves the server running when Client::new fails
create_clientKeepServer(c, created) ==
  IF created
  THEN [c |-> [TrackAll(c, c.tracked) EXCEPT !.client = TRUE], ok |-> TRUE]
  ELSE [c |-> [add_message(c, "failed to connect") EXCEPT !.state = "Poisoned"],
        ok |-> FALSE]

\* Context::create_client; created: Client::new succeeds
create_client(c, created) ==
  IF created
  THEN [c |-> [TrackAll(c, c.tracked) EXCEPT !.client = TRUE], ok |-> TRUE]
  ELSE [c |-> [disconnect(add_message(c, "failed to connect"))
                 EXCEPT !.state = "Poisoned"],
        ok |-> FALSE]

\* the outcomes of the fallible steps of a connect call
ConnectOutcomes ==
  [config : BOOLEAN, token : BOOLEAN, mapping : BOOLEAN, started : BOOLEAN,
   channel : BOOLEAN, created : BOOLEAN]

\* Context::connect_direct
connect_direct(c, o) ==
  IF c.client THEN c
  ELSE LET c1 == [c EXCEPT !.state = "Poisoned"]
       IN IF ~o.config THEN add_message(c1, "failed to load config")
          ELSE IF ~o.token THEN add_message(c1, "unauthenticated")
          ELSE LET r == create_server(c1, o.mapping, o.started)
               IN IF ~r.channel THEN r.c
                  ELSE LET k == create_client(r.c, o.created)
                       IN IF k.ok THEN [k.c EXCEPT !.state = "ConnectedDirect"]
                          ELSE k.c

\* Context::connect_proxy; channel: Channel::connect succeeds
connect_proxy(c, o) ==
  IF c.client THEN c
  ELSE LET c1 == [c EXCEPT !.state = "Poisoned"]
       IN IF ~o.config THEN add_message(c1, "failed to load config")
          ELSE IF ~o.channel THEN add_message(c1, "failed to connect")
          ELSE LET k == create_client(c1, o.created)
               IN IF k.ok THEN [k.c EXCEPT !.state = "ConnectedProxy"]
                  ELSE k.c

\* Context::connect_local
connect_local(c, o) ==
  IF c.client THEN c
  ELSE LET c1 == [c EXCEPT !.state = "Poisoned"]
           r == create_server(c1, o.mapping, o.started)
       IN IF ~r.channel THEN r.c
          ELSE LET k == create_client(r.c, o.created)
               IN IF k.ok THEN [k.c EXCEPT !.state = "ConnectedLocal"]
                  ELSE k.c

\* the message loop of Client::tick, for the set of aerodromes
RECURSIVE Client_tick(_, _)
Client_tick(c, msgs) ==
  IF msgs = <<>> THEN [c EXCEPT !.down = <<>>]
  ELSE LET m == Head(msgs)
       IN Client_tick(
            IF m[1] = "Config" THEN [c EXCEPT !.aerodromes = @ \cup {m[2]}]
            ELSE set_tracking(c, m[2], FALSE),
            Tail(msgs))

\* Context::tick; cancelled: Server::is_cancelled(), failed: Client::tick
\* returns Err (the channel fails)
Context_tick(c, cancelled, failed) ==
  LET c1 == IF c.server /\ cancelled
            THEN [add_message(disconnect(c), "disconnected")
                    EXCEPT !.state = "Poisoned"]
            ELSE c
  IN IF ~c1.client THEN c1
     ELSE IF failed THEN [disconnect(c1) EXCEPT !.state = "Poisoned"]
     ELSE Client_tick(c1, c1.down)

\* Vec::contains
Contains(seq, x) == \E k \in DOMAIN seq : seq[k] = x

\* Context::track_aerodrome
track_aerodrome(c, icao) ==
  LET c1 == IF c.client /\ ~Contains(c.tracked, icao)
            THEN set_tracking(c, icao, TRUE) ELSE c
  IN [c1 EXCEPT !.tracked = Append(@, icao)]

\* Vec::swap_remove(i), i counted from 1
swap_remove(seq, i) ==
  LET n == Len(seq)
  IN [k \in 1 .. (n - 1) |-> IF k = i THEN seq[n] ELSE seq[k]]

\* Context::untrack_aerodrome
untrack_aerodrome(c, icao) ==
  IF ~Contains(c.tracked, icao) THEN c
  ELSE LET i == SetMin({k \in DOMAIN c.tracked : c.tracked[k] = icao})
           c1 == [c EXCEPT !.tracked = swap_remove(@, i)]
       IN IF c1.client /\ ~Contains(c1.tracked, icao)
          THEN set_tracking(c1, icao, FALSE) ELSE c1

\* one call on the Context
CtxStep(c2) ==
  /\ steps < MaxCtxSteps
  /\ ctx' = c2
  /\ steps' = steps + 1

CtxConnectDirect(o) == CtxStep(connect_direct(ctx, o))
CtxConnectProxy(o) == CtxStep(connect_proxy(ctx, o))
CtxConnectLocal(o) == CtxStep(connect_local(ctx, o))
CtxTick(cancelled, failed) == CtxStep(Context_tick(ctx, cancelled, failed))
CtxDisconnect == CtxStep(disconnect(ctx))
CtxTrack(icao) ==
  Len(ctx.tracked) < MaxScreens /\ CtxStep(track_aerodrome(ctx, icao))
CtxUntrack(icao) == CtxStep(untrack_aerodrome(ctx, icao))

\* the server side forwards a message for an aerodrome the client tracks: the
\* configuration, or the loss of the upstream connection
CtxDeliver(m) ==
  /\ ctx.client /\ ctx.down = <<>>
  /\ ctx.sent[m[2]] = "true"
  /\ ctx' = [ctx EXCEPT !.down = <<m>>]
  /\ UNCHANGED steps

InitConnect ==
  /\ ClientInit /\ WorkerInit(FALSE, FALSE) /\ EchoIdle
  /\ chan = <<>> /\ srv = <<>>
  /\ ctx = ContextNew

ConnectNext ==
  /\ UNCHANGED <<mgr, strm, serverq, last, lk, net, aeroB, echo, aero, now,
                 inbox, sent, hist, scen, chan, srv>>
  /\ \/ \E o \in ConnectOutcomes : CtxConnectDirect(o)
     \/ \E o \in ConnectOutcomes : CtxConnectProxy(o)
     \/ \E o \in ConnectOutcomes : CtxConnectLocal(o)
     \/ \E cancelled \in BOOLEAN, failed \in BOOLEAN : CtxTick(cancelled, failed)
     \/ CtxDisconnect
     \/ \E icao \in TrackIcaos : CtxTrack(icao)
     \/ \E icao \in TrackIcaos : CtxUntrack(icao)
     \/ \E icao \in TrackIcaos : CtxDeliver(CtxConfig(icao))
     \/ \E icao \in TrackIcaos : CtxDeliver(CtxError(icao))

SpecConnect == InitConnect /\ [][ConnectNext]_vars


\* C38: while a client is connected, the icaos whose last Track message sent
\* by the client is Track{true} are the distinct icaos of Context.tracked,
\* also after the client stopped tracking on its own because of
\* Error{disconnect = true} and after a reconnect.
C38_TrackedMatchesSent ==
  ctx.client =>
    {i \in TrackIcaos : ctx.sent[i] = "true"} = Elems(ctx.tracked)

Connected == {"ConnectedDirect", "ConnectedProxy", "ConnectedLocal"}

\* client and server both None, with the given connection state
Closed(c, state) == ~c.client /\ ~c.server /\ c.state = state

\* C39: in every reachable Context state, client is Some iff the state is
\* ConnectedDirect, ConnectedProxy or ConnectedLocal, and server is Some only
\* if client is Some; a connect call while a client exists changes nothing;
\* a connect call of which a step fails, a tick in which Client::tick fails
\* and a tick that finds the server thread cancelled leave both None with
\* state Poisoned; disconnect() leaves both None with state Disconnected.
C39_ContextConsistent ==
  /\ ctx.client <=> ctx.state \in Connected
  /\ ctx.server => ctx.client
  /\ \A o \in ConnectOutcomes :
       LET d == connect_direct(ctx, o)
           p == connect_proxy(ctx, o)
           l == connect_local(ctx, o)
       IN IF ctx.client THEN d = ctx /\ p = ctx /\ l = ctx
          ELSE /\ IF o.config /\ o.token /\ o.mapping /\ o.started /\ o.created
                  THEN d.client /\ d.server /\ d.state = "ConnectedDirect"
                  ELSE Closed(d, "Poisoned")
               /\ IF o.config /\ o.channel /\ o.created
                  THEN p.client /\ ~p.server /\ p.state = "ConnectedProxy"
                  ELSE Closed(p, "Poisoned")
               /\ IF o.mapping /\ o.started /\ o.created
                  THEN l.client /\ l.server /\ l.state = "ConnectedLocal"
                  ELSE Closed(l, "Poisoned")
  /\ \A cancelled \in BOOLEAN, failed \in BOOLEAN :
       LET t == Context_tick(ctx, cancelled, failed)
       IN IF (ctx.server /\ cancelled) \/ (ctx.client /\ failed)
          THEN Closed(t, "Poisoned")
          ELSE /\ t.client = ctx.client /\ t.server = ctx.server
               /\ t.state = ctx.state
  /\ Closed(disconnect(ctx), "Disconnected")

\* C39 witness: a connection with a server had been made, and a tick found
\* the server thread cancelled
C39_CancelledPoisons ==
  /\ ctx.state = "Poisoned" /\ ~ctx.client /\ ~ctx.server
  /\ ctx.messages = <<"disconnected">>


\* the aerodrome the server holds after the broadcasts msgs, each of which
\* tells of one change made under the aerodrome's lock
RECURSIVE AeroAfter(_, _)
AeroAfter(a, msgs) ==
  IF msgs = <<>> THEN a
  ELSE LET m == Head(msgs)
           left == a.controllers \ {m.id}
       IN AeroAfter(
            CASE m.kind = "ControllerConnect" ->
                   [a EXCEPT !.controllers = @ \cup {m.id}]
              [] m.kind = "ControllerDisconnect" ->
                   IF m.id \in a.controllers /\ left = {}
                   THEN AerodromeDefault
                   ELSE [a EXCEPT !.controllers = left]
              [] m.kind = "StateUpdate" ->
                   [a EXCEPT !.objects = Insert(@, m.key, m.flag)]
              [] m.kind = "SharedStateUpdate" -> merge_state(a, m.json),
            Tail(msgs))

\* C40: a session that has been sent its InitialState and does not lag misses
\* no update: InitialState is the first message it was sent; the broadcasts it
\* was sent are the bus's messages from its subscription on, in order and
\* without a gap; and the snapshot is the aerodrome as it was after all
\* broadcasts before the subscription, or after some more of them, so that
\* every accepted update is in the snapshot or at or after the subscription.
C40_NoUpdateMissed ==
  \A s \in Sessions :
    (srv.sess[s].phase = "open" /\ ~srv.sess[s].lagged) =>
      LET out == srv.sess[s].out
          bc == Broadcasts(out)
          n == srv.sess[s].next
          start == n - Len(bc)
      IN /\ out # <<>> /\ out[1].kind = "InitialState"
         /\ \A k \in DOMAIN out : out[k].kind = "InitialState" => k = 1
         /\ bc = SubSeq(srv.log, start, n - 1)
         /\ \E j \in (start - 1) .. Len(srv.log) :
              LET a == AeroAfter(AerodromeDefault, SubSeq(srv.log, 1, j))
              IN out[1].json = a.state /\ out[1].objects = a.objects
         /\ srv.aero = AeroAfter(AerodromeDefault, srv.log)

\* C40 witness: the only SharedStateUpdate so far was merged between a
\* session's subscribe() and its snapshot: the session's InitialState holds
\* it, and it was delivered as a broadcast afterwards
C40_UpdateBetweenSubscribeAndSnapshot ==
  \E s \in Sessions :
    LET out == srv.sess[s].out
    IN /\ srv.sess[s].phase = "open" /\ ~srv.sess[s].lagged
       /\ Len(out) >= 2
       /\ out[1].kind = "InitialState" /\ out[1].json # JNull
       /\ out[2].kind = "SharedStateUpdate"
       /\ Cardinality({k \in DOMAIN srv.log :
                         srv.log[k].kind = "SharedStateUpdate"}) = 1

====
